---- MODULE Spec2Model ----
(***************************************************************************)
(* A model of the pdf-wtf document pipeline (src/src/pdfwtf).              *)
(*                                                                         *)
(* The pure helpers of utils.py (parse_page_ranges, has_no_text,           *)
(* get_output_dir_final, get_doi) and extract_pages of pipeline.py are     *)
(* operators computed as the code computes them; each has a small          *)
(* specification whose Init draws the inputs and whose action applies the  *)
(* function.  process_pdf is a state machine over its statements; it is    *)
(* also run over an output tree that an earlier run left, twice over one   *)
(* temp root, and from the command line to its first write. export_images, *)
(* wait_for_download and save_page_as_pdf with the shared browser driver   *)
(* have components of their own.                                           *)
(*                                                                         *)
(* Strings are sequences of one-character strings, so that split, strip,   *)
(* int, startswith and the substring test are the operations of the code   *)
(* and not the identity.                                                   *)
(***************************************************************************)
EXTENDS Integers, Sequences, FiniteSets, TLC

VARIABLES
    \* parse_page_ranges(pages_str, total_pages)
    pages_str, total_pages, parse_result,
    \* has_no_text(filepath) / is_scanned_or_hybrid(filepath): the pages of the
    \* opened document and the two return values
    doc, no_text_result, hybrid_result,
    \* extract_pages(input_pdf, output_pdf, pages_to_keep, pages_to_skip,
    \* zero_based): the arguments, the files on disk, new_pdf, the position in
    \* the function and its outcome
    ex_input_pdf, ex_output_pdf, ex_keep, ex_skip, ex_zero_based,
    ex_files, ex_new_pdf, ex_pc, ex_original,
    \* get_doi(texts_dir): what the directory holds, what PAT_DOI.findall
    \* returns on the first text file, and the return value
    doi_dir, doi_matches, doi_result,
    \* get_output_dir_final(output_dir, input_pdf, input_path_prefix): the
    \* arguments, whether the file system lets the directory be created, the
    \* directories created and the outcome
    od_output_dir, od_input_pdf, od_input_path_prefix, od_mkdir_ok, od_created, od_result,
    \* process_pdf: the arguments and the pages of the input document; the
    \* position in the function and the exception that left it; its locals;
    \* the files of the temp root and the output tree, the directories, the
    \* mkdtemp directory; the unpaper loop; the external programs started, the
    \* arguments of the OCR backend call, and the metadata
    pp_args, pp_input, pp_pc, pp_error, pp_output_dir, pp_is_scan, pp_total_pages_in,
    pp_rotated, pp_files, pp_dirs, pp_temp_subdir, pp_idx, pp_tools, pp_ocr, pp_metadata,
    \* process_pdf: the stages that ran, in the order they ran
    pp_stages,
    \* export_images(pdf_path, out_dir): the file at pdf_path, the entry at out_dir and the outcome
    ei_pdf_path, ei_out_dir, ei_result,
    \* wait_for_download(folder, pdf_name, timeout): the names in the folder, the arguments, the clock in units of one sleep, end_time, the position in the function and the outcome
    wd_folder, wd_pdf_name, wd_timeout, wd_now, wd_end_time, wd_pc, wd_result,
    \* two process_pdf runs over one temp root: the arguments and the position of each run, the files of the temp root, the exception that ended each run
    tr_args, tr_pc, tr_temp, tr_error,
    \* save_page_as_pdf(url, temp_dir, ua, force_download): the arguments of the current call, the module-level _driver of scraper/service.py, whether output_pdf exists, the position in the function and the outcome
    sc_args, sc_driver, sc_output_pdf, sc_pc, sc_result,
    \* cli.main and process_pdf up to the first write into the output directory: --outdir, PDFWTF_OUTPUT_DIR, the marker, the page selector, the directories that exist, output_dir, the position and the exception
    or_option, or_env, or_input_path_prefix, or_extract_pages_str, or_dirs, or_output_dir, or_pc, or_error

varsParse == << pages_str, total_pages, parse_result >>
varsClassify == << doc, no_text_result, hybrid_result >>
varsExtract == << ex_input_pdf, ex_output_pdf, ex_keep, ex_skip, ex_zero_based,
                 ex_files, ex_new_pdf, ex_pc, ex_original >>
varsDoi == << doi_dir, doi_matches, doi_result >>
varsOutDir == << od_output_dir, od_input_pdf, od_input_path_prefix, od_mkdir_ok,
                od_created, od_result >>
varsPipeline == << pp_args, pp_input, pp_pc, pp_error, pp_output_dir, pp_is_scan,
                  pp_total_pages_in, pp_rotated, pp_files, pp_dirs, pp_temp_subdir, pp_idx,
                  pp_tools, pp_ocr, pp_metadata, pp_stages >>
varsExport == << ei_pdf_path, ei_out_dir, ei_result >>
varsDownload == << wd_folder, wd_pdf_name, wd_timeout, wd_now, wd_end_time, wd_pc, wd_result >>
varsTwoRuns == << tr_args, tr_pc, tr_temp, tr_error >>
varsScraper == << sc_args, sc_driver, sc_output_pdf, sc_pc, sc_result >>
varsOutRoot == << or_option, or_env, or_input_path_prefix, or_extract_pages_str, or_dirs, or_output_dir, or_pc, or_error >>
vars == << varsParse, varsClassify, varsExtract, varsDoi, varsOutDir, varsPipeline, varsExport, varsDownload, varsTwoRuns, varsScraper, varsOutRoot >>

\* what a step of one component leaves alone: the other components
FrameParse == UNCHANGED << varsClassify, varsExtract, varsDoi, varsOutDir, varsPipeline, varsExport, varsDownload, varsTwoRuns, varsScraper, varsOutRoot >>
FrameClassify == UNCHANGED << varsParse, varsExtract, varsDoi, varsOutDir, varsPipeline, varsExport, varsDownload, varsTwoRuns, varsScraper, varsOutRoot >>
FrameExtract == UNCHANGED << varsParse, varsClassify, varsDoi, varsOutDir, varsPipeline, varsExport, varsDownload, varsTwoRuns, varsScraper, varsOutRoot >>
FrameDoi == UNCHANGED << varsParse, varsClassify, varsExtract, varsOutDir, varsPipeline, varsExport, varsDownload, varsTwoRuns, varsScraper, varsOutRoot >>
FrameOutDir == UNCHANGED << varsParse, varsClassify, varsExtract, varsDoi, varsPipeline, varsExport, varsDownload, varsTwoRuns, varsScraper, varsOutRoot >>
FramePipeline == UNCHANGED << varsParse, varsClassify, varsExtract, varsDoi, varsOutDir, varsExport, varsDownload, varsTwoRuns, varsScraper, varsOutRoot >>
FrameExport == UNCHANGED << varsParse, varsClassify, varsExtract, varsDoi, varsOutDir, varsPipeline, varsDownload, varsTwoRuns, varsScraper, varsOutRoot >>
FrameDownload == UNCHANGED << varsParse, varsClassify, varsExtract, varsDoi, varsOutDir, varsPipeline, varsExport, varsTwoRuns, varsScraper, varsOutRoot >>
FrameTwoRuns == UNCHANGED << varsParse, varsClassify, varsExtract, varsDoi, varsOutDir, varsPipeline, varsExport, varsDownload, varsScraper, varsOutRoot >>
FrameScraper == UNCHANGED << varsParse, varsClassify, varsExtract, varsDoi, varsOutDir, varsPipeline, varsExport, varsDownload, varsTwoRuns, varsOutRoot >>
FrameOutRoot == UNCHANGED << varsParse, varsClassify, varsExtract, varsDoi, varsOutDir, varsPipeline, varsExport, varsDownload, varsTwoRuns, varsScraper >>

(***************************************************************************)
(* Generic string and sequence helpers (Python built-ins).                 *)
(***************************************************************************)

\* All sequences over S of length 0..n.
SeqsUpTo(S, n) == UNION { [1..k -> S] : k \in 0..n }

\* The value of a call that has not returned yet.
PENDING == [kind |-> "pending"]

\* str.split(sep) for a one-character separator: the pieces between the
\* separators, always at least one piece.
split(s, sep) ==
    LET at == { i \in 1..Len(s) : s[i] = sep }
        n == Cardinality(at)
        pos(k) == IF k = 0 THEN 0
                  ELSE IF k = n + 1 THEN Len(s) + 1
                  ELSE CHOOSE i \in at : Cardinality({ j \in at : j < i }) = k - 1
    IN [k \in 1..(n + 1) |-> SubSeq(s, pos(k - 1) + 1, pos(k) - 1)]

\* `c in s` for a one-character c.
Contains(s, c) == \E i \in 1..Len(s) : s[i] = c

DigitChars == {"0", "1", "2", "3"}

DigitVal(c) == CASE c = "0" -> 0 [] c = "1" -> 1 [] c = "2" -> 2 [] c = "3" -> 3

\* int(s) accepts s when it is a non-empty run of decimal digits (the only
\* characters a piece can hold here besides the separators).
IsIntLiteral(s) == Len(s) > 0 /\ \A i \in 1..Len(s) : s[i] \in DigitChars

RECURSIVE IntOf(_)
IntOf(s) ==
    IF s = <<>> THEN 0
    ELSE 10 * IntOf(SubSeq(s, 1, Len(s) - 1)) + DigitVal(s[Len(s)])

\* sorted(set): the ascending sequence of the elements of a finite set of integers.
sorted(S) ==
    IF S = {} THEN <<>>
    ELSE LET lo == CHOOSE x \in S : \A y \in S : x <= y
             hi == CHOOSE x \in S : \A y \in S : y <= x
         IN SelectSeq([i \in 1..(hi - lo + 1) |-> lo + i - 1], LAMBDA x : x \in S)

(***************************************************************************)
(* utils.parse_page_ranges                                                 *)
(***************************************************************************)

\* total_pages=None
NONE == -1

Ok(v) == [kind |-> "ok", value |-> v]
Raise(e) == [kind |-> "error", error |-> e]

\* range(start, end + 1) as a set
RangePagesExclusive(start, end) == start..(end - 1)
RangePages(start, end) == start..end

\* the body of the for loop over pages_str.split(","): the outcome after the
\* remaining parts, given the set built so far.
RECURSIVE ParseParts(_, _, _)
ParseParts(parts, total, pages) ==
    IF parts = <<>> THEN Ok(sorted(pages))
    ELSE LET part == Head(parts) IN
         IF Contains(part, "-")
         THEN LET pieces == split(part, "-") IN
              IF Len(pieces) # 2 THEN Raise("ValueError: unpack")
              ELSE IF ~IsIntLiteral(pieces[1]) THEN Raise("ValueError: invalid literal")
              ELSE LET start == IntOf(pieces[1]) IN
                   IF pieces[2] = <<>>
                   THEN ParseParts(Tail(parts), total,
                                   pages \cup RangePages(start, total))
                   ELSE IF ~IsIntLiteral(pieces[2])
                        THEN Raise("ValueError: invalid literal")
                        ELSE ParseParts(Tail(parts), total,
                                        pages \cup RangePages(start, IntOf(pieces[2])))
         ELSE IF ~IsIntLiteral(part) THEN Raise("ValueError: invalid literal")
              ELSE LET page == IntOf(part) IN
                   IF page > total THEN Raise("ValueError: out of range")
                   ELSE ParseParts(Tail(parts), total, pages \cup {page})

parse_page_ranges(str, total) ==
    IF total = NONE THEN Raise("ValueError: total_pages must be specified")
    ELSE ParseParts(split(str, ","), total, {})

\* ---- the specification of the parser ----
MaxExprLen == 5
MaxPages == 2
MaxDigits == 2

\* no page literal of the expression is longer than MaxDigits digits
DigitRunsBounded(s) ==
    \A i \in 1..Len(s) :
        (i + MaxDigits <= Len(s)) => \E j \in i..(i + MaxDigits) : s[j] \notin DigitChars

ExprChars == DigitChars \cup {"-", ","}

InitParse ==
    /\ pages_str \in { s \in SeqsUpTo(ExprChars, MaxExprLen) : DigitRunsBounded(s) }
    /\ total_pages \in {NONE} \cup 0..MaxPages
    /\ parse_result = PENDING

IdleParse ==
    /\ pages_str = <<>>
    /\ total_pages = NONE
    /\ parse_result = PENDING

CallParsePageRanges ==
    /\ parse_result = PENDING
    /\ parse_result' = parse_page_ranges(pages_str, total_pages)
    /\ UNCHANGED << pages_str, total_pages >>
    /\ FrameParse

NextParse == CallParsePageRanges

(***************************************************************************)
(* utils.has_no_text and utils/analyze.is_scanned_or_hybrid                *)
(*                                                                         *)
(* A document is the sequence of its pages; a page carries the text        *)
(* page.get_text() returns, its rectangle and the bounding boxes of its    *)
(* images.                                                                 *)
(***************************************************************************)

WhitespaceChars == {" ", "\n"}
WordChars == {"a", "1", "_"}

lstrip(s) ==
    IF \A i \in 1..Len(s) : s[i] \in WhitespaceChars THEN <<>>
    ELSE LET first == CHOOSE i \in 1..Len(s) :
                 s[i] \notin WhitespaceChars /\ \A j \in 1..(i - 1) : s[j] \in WhitespaceChars
         IN SubSeq(s, first, Len(s))

rstrip(s) ==
    IF \A i \in 1..Len(s) : s[i] \in WhitespaceChars THEN <<>>
    ELSE LET last == CHOOSE i \in 1..Len(s) :
                 s[i] \notin WhitespaceChars /\ \A j \in (i + 1)..Len(s) : s[j] \in WhitespaceChars
         IN SubSeq(s, 1, last)

\* str.strip()
strip_not_applied(s) == s
strip(s) == rstrip(lstrip(s))

\* for page in doc: if page.get_text().strip(): return False
\* a classifier that wants a page before it reports a scan
NonEmptyNoText(pages) ==
    pages # <<>> /\ \A i \in 1..Len(pages) : strip(pages[i].text) = <<>>
RECURSIVE has_no_text(_)
has_no_text(pages) ==
    IF pages = <<>> THEN TRUE
    ELSE IF strip(Head(pages).text) # <<>> THEN FALSE
    ELSE has_no_text(Tail(pages))

\* str.splitlines(): the pieces between line breaks, without a last empty piece
splitlines(s) ==
    LET pieces == split(s, "\n") IN
    IF pieces[Len(pieces)] = <<>> THEN SubSeq(pieces, 1, Len(pieces) - 1) ELSE pieces

\* PAGE_NUMBER_RE = ^\s*[\W_]*\d+[\W_]*\s*$ : decoration, digits, decoration
IsDecoration(c) == c \notin WordChars \/ c = "_"
PAGE_NUMBER_RE_match(line) ==
    \E i \in 1..Len(line) : \E j \in i..Len(line) :
        /\ \A k \in 1..(i - 1) : IsDecoration(line[k])
        /\ \A k \in i..j : line[k] \in DigitChars
        /\ \A k \in (j + 1)..Len(line) : IsDecoration(line[k])

\* " ".join(lines)
RECURSIVE JoinSpace(_)
JoinSpace(lines) ==
    IF lines = <<>> THEN <<>>
    ELSE IF Len(lines) = 1 THEN lines[1]
    ELSE lines[1] \o <<" ">> \o JoinSpace(Tail(lines))

\* len(re.findall(r"\w+", text)): the number of maximal runs of word characters
CountWords(s) ==
    Cardinality({ i \in 1..Len(s) :
        s[i] \in WordChars /\ (i = 1 \/ s[i - 1] \notin WordChars) })

MIN_CHARS == 30
MIN_WORDS == 5

is_meaningful_text(text, min_chars, min_words) ==
    LET t == strip(text) IN
    IF Len(t) < min_chars THEN FALSE
    ELSE IF CountWords(t) < min_words THEN FALSE
    ELSE TRUE

\* min_area_ratio=0.4, as a fraction
MIN_AREA_RATIO_NUM == 4
MIN_AREA_RATIO_DEN == 10

\* img_area / page_area >= min_area_ratio for some image of the page
page_has_large_image(page) ==
    \E k \in 1..Len(page.images) :
        page.images[k].width * page.images[k].height * MIN_AREA_RATIO_DEN
            >= MIN_AREA_RATIO_NUM * page.rect.width * page.rect.height

RECURSIVE is_scanned_or_hybrid(_)
is_scanned_or_hybrid(pages) ==
    IF pages = <<>> THEN TRUE
    ELSE LET page == Head(pages)
             lines == SelectSeq(splitlines(page.text),
                                LAMBDA line : ~PAGE_NUMBER_RE_match(line))
             cleaned == JoinSpace(lines)
         IN IF is_meaningful_text(cleaned, MIN_CHARS, MIN_WORDS)
                /\ ~page_has_large_image(page)
            THEN FALSE
            ELSE is_scanned_or_hybrid(Tail(pages))

\* ---- the specification of the classifiers ----
MaxDocPages == 2
MaxTextLen == 2

Word7 == <<"a", "a", "a", "a", "a", "a", "a">>
\* five words, 39 characters
LongText == Word7 \o <<" ">> \o Word7 \o <<" ">> \o Word7 \o <<" ">> \o Word7 \o <<" ">> \o Word7
\* four words, 31 characters, and a page-number line
FourWordsAndPageNumber ==
    Word7 \o <<" ">> \o Word7 \o <<" ">> \o Word7 \o <<" ">> \o Word7 \o <<"\n", "-", "1", "1", "-">>

SampleTexts == { <<" ", "\n">>, <<"-", " ", "1", " ", "-">>, LongText, FourWordsAndPageNumber }

PageTexts == SeqsUpTo({" ", "a"}, MaxTextLen) \cup SampleTexts

PageRect == [width |-> 10, height |-> 10]
\* no image; one image of 35% of the page; one image of 40% of the page
PageImages == { <<>>, << [width |-> 5, height |-> 7] >>, << [width |-> 5, height |-> 8] >> }

Pages == [text : PageTexts, rect : {PageRect}, images : PageImages]

InitClassify ==
    /\ doc \in SeqsUpTo(Pages, MaxDocPages)
    /\ no_text_result = PENDING
    /\ hybrid_result = PENDING

IdleClassify ==
    /\ doc = <<>>
    /\ no_text_result = PENDING
    /\ hybrid_result = PENDING

CallHasNoText ==
    /\ no_text_result = PENDING
    /\ no_text_result' = Ok(has_no_text(doc))
    /\ UNCHANGED << doc, hybrid_result >>
    /\ FrameClassify

CallIsScannedOrHybrid ==
    /\ hybrid_result = PENDING
    /\ hybrid_result' = Ok(is_scanned_or_hybrid(doc))
    /\ UNCHANGED << doc, no_text_result >>
    /\ FrameClassify

NextClassify == CallHasNoText \/ CallIsScannedOrHybrid

(***************************************************************************)
(* pipeline.extract_pages                                                  *)
(*                                                                         *)
(* A PDF file is a record: whether it exists, whether it was written to    *)
(* the end, and its pages.  A page of the input is identified by its       *)
(* 1-based position in the input document.                                 *)
(***************************************************************************)

NoFile == [exists |-> FALSE, complete |-> FALSE, pages |-> <<>>]
PdfFile(pages) == [exists |-> TRUE, complete |-> TRUE, pages |-> pages]
\* a file opened for writing whose content was not written to the end
PartialFile == [exists |-> TRUE, complete |-> FALSE, pages |-> <<>>]

\* [p - 1 for p in pages]
ToZeroBasedTwice(list) == [k \in 1..Len(list) |-> list[k] - 2]
ToZeroBased(list) == [k \in 1..Len(list) |-> list[k] - 1]

\* `i in list`
InList(list, i) == \E k \in 1..Len(list) : list[k] = i

\* the loop over enumerate(pdf.pages): the pages appended to new_pdf, for the
\* lists as they are after the conversion
AppendedPages(pages, keep, skip) ==
    LET chosen == { i \in 0..(Len(pages) - 1) :
                      IF keep # <<>> THEN InList(keep, i)
                      ELSE IF skip # <<>> THEN ~InList(skip, i)
                      ELSE FALSE }
        order == sorted(chosen)
    IN [k \in 1..Len(order) |-> pages[order[k] + 1]]

\* lines 49-57: the lists the loop uses
ConvertedList(list, zero_based) ==
    IF ~zero_based /\ list # <<>> THEN ToZeroBased(list) ELSE list

\* "if not pages_to_keep and not pages_to_skip: return"
ExtractReturnNoOp ==
    /\ ex_pc = "start"
    /\ ex_keep = <<>> /\ ex_skip = <<>>
    /\ ex_pc' = "returned"
    /\ UNCHANGED << ex_input_pdf, ex_output_pdf, ex_keep, ex_skip, ex_zero_based,
                    ex_files, ex_new_pdf, ex_original >>
    /\ FrameExtract

\* pikepdf.open(input_pdf) and the loop that fills new_pdf
ExtractReadInput ==
    /\ ex_pc = "start"
    /\ ~(ex_keep = <<>> /\ ex_skip = <<>>)
    /\ ex_files[ex_input_pdf].exists /\ ex_files[ex_input_pdf].complete
    /\ ex_new_pdf' = AppendedPages(ex_files[ex_input_pdf].pages,
                                   ConvertedList(ex_keep, ex_zero_based),
                                   ConvertedList(ex_skip, ex_zero_based))
    /\ ex_pc' = "save"
    /\ UNCHANGED << ex_input_pdf, ex_output_pdf, ex_keep, ex_skip, ex_zero_based,
                    ex_files, ex_original >>
    /\ FrameExtract

\* pikepdf.open(input_pdf) raises (the file cannot be read): wrapped in RuntimeError
ExtractOpenFails ==
    /\ ex_pc = "start"
    /\ ~(ex_keep = <<>> /\ ex_skip = <<>>)
    /\ ex_pc' = "raised"
    /\ UNCHANGED << ex_input_pdf, ex_output_pdf, ex_keep, ex_skip, ex_zero_based,
                    ex_files, ex_new_pdf, ex_original >>
    /\ FrameExtract

\* new_pdf.save(output_pdf) opens the file at output_pdf for writing
ExtractSaveOpen ==
    /\ ex_pc = "save"
    /\ ex_files' = [ex_files EXCEPT ![ex_output_pdf] = PartialFile]
    /\ ex_pc' = "writing"
    /\ UNCHANGED << ex_input_pdf, ex_output_pdf, ex_keep, ex_skip, ex_zero_based,
                    ex_new_pdf, ex_original >>
    /\ FrameExtract

\* new_pdf.save(output_pdf) writes the document to the end; new_pdf.close()
ExtractSaveWrite ==
    /\ ex_pc = "writing"
    /\ ex_files' = [ex_files EXCEPT ![ex_output_pdf] = PdfFile(ex_new_pdf)]
    /\ ex_pc' = "returned"
    /\ UNCHANGED << ex_input_pdf, ex_output_pdf, ex_keep, ex_skip, ex_zero_based,
                    ex_new_pdf, ex_original >>
    /\ FrameExtract

\* new_pdf.save(output_pdf) raises, before the file is opened or while it is
\* written (an I/O error): wrapped in RuntimeError, the file left as it is
ExtractSaveFails ==
    /\ ex_pc \in {"save", "writing"}
    /\ ex_pc' = "raised"
    /\ UNCHANGED << ex_input_pdf, ex_output_pdf, ex_keep, ex_skip, ex_zero_based,
                    ex_files, ex_new_pdf, ex_original >>
    /\ FrameExtract

NextExtract ==
    \/ ExtractReturnNoOp
    \/ ExtractReadInput
    \/ ExtractOpenFails
    \/ ExtractSaveOpen
    \/ ExtractSaveWrite
    \/ ExtractSaveFails

\* ---- the specification of extract_pages ----
MaxExtractPages == 2
MaxListLen == 2

PdfPaths == {"in.pdf", "out.pdf"}

\* the input document: pages 1..n, each identified by its position
InputPages(n) == [i \in 1..n |-> i]

InitExtract ==
    /\ ex_input_pdf = "in.pdf"
    /\ ex_output_pdf \in PdfPaths
    /\ \E n \in 0..MaxExtractPages :
        /\ ex_original = InputPages(n)
        /\ ex_keep \in SeqsUpTo(0..(n + 1), MaxListLen)
        /\ ex_skip \in SeqsUpTo(0..(n + 1), MaxListLen)
    /\ ex_zero_based \in BOOLEAN
    /\ ex_files \in { [f \in PdfPaths |-> IF f = "in.pdf" THEN PdfFile(ex_original) ELSE other] :
                        other \in {NoFile, PdfFile(<<1>>)} }
    /\ ex_new_pdf = <<>>
    /\ ex_pc = "start"

IdleExtract ==
    /\ ex_input_pdf = "in.pdf"
    /\ ex_output_pdf = "out.pdf"
    /\ ex_original = <<>>
    /\ ex_keep = <<>>
    /\ ex_skip = <<>>
    /\ ex_zero_based = FALSE
    /\ ex_files = [f \in PdfPaths |-> NoFile]
    /\ ex_new_pdf = <<>>
    /\ ex_pc = "idle"

(***************************************************************************)
(* utils.get_doi                                                           *)
(*                                                                         *)
(* A match is the group PAT_DOI captures: the registrant part "10.NNNN/"   *)
(* (one symbol here; two registrant parts are equal or neither is a prefix *)
(* of the other, because of the closing slash) followed by the characters  *)
(* up to the next whitespace.                                              *)
(***************************************************************************)

\* the elements of q at the positions in idx, in order
AtPositions(q, idx) == LET order == sorted(idx) IN [k \in 1..Len(order) |-> q[order[k]]]

\* the characters m.rstrip(".,;:)\"'") removes
TrailingPunctuation == {".", ",", ";", ":", ")", "\"", "'"}

rstrip_punctuation(m) ==
    IF \A i \in 1..Len(m) : m[i] \in TrailingPunctuation THEN <<>>
    ELSE LET last == CHOOSE i \in 1..Len(m) :
                 m[i] \notin TrailingPunctuation
                 /\ \A j \in (i + 1)..Len(m) : m[j] \in TrailingPunctuation
         IN SubSeq(m, 1, last)

LowerChar(c) == CASE c = "A" -> "a" [] c = "B" -> "b" [] OTHER -> c
lower(m) == [i \in 1..Len(m) |-> LowerChar(m[i])]

\* matches = [m.rstrip(".,;:)\"'").lower() for m in matches]
Normalized(matches) == [i \in 1..Len(matches) |-> lower(rstrip_punctuation(matches[i]))]

\* the seen/deduped loop: the first occurrence of every match
Deduped(matches) ==
    AtPositions(matches, { i \in 1..Len(matches) : \A j \in 1..(i - 1) : matches[j] # matches[i] })

\* other.startswith(m)
startswith(other, m) == Len(m) <= Len(other) /\ SubSeq(other, 1, Len(m)) = m

\* any(other != m and other.startswith(m) for other in deduped)
PrefixOfItself(m, deduped) ==
    \E k \in 1..Len(deduped) : startswith(deduped[k], m)
PrefixOfOther(m, deduped) ==
    \E k \in 1..Len(deduped) : deduped[k] # m /\ startswith(deduped[k], m)

\* the final loop
Final(deduped) ==
    AtPositions(deduped, { i \in 1..Len(deduped) : ~PrefixOfOther(deduped[i], deduped) })

get_doi(dir, matches) ==
    IF dir \in {"missing", "no_txt_files", "unreadable"} THEN <<>>
    ELSE Final(Deduped(Normalized(matches)))

\* ---- the specification of get_doi ----
MaxMatches == 2
MaxSuffixLen == 2

DoiHead == "10.1000/"
DoiSuffixChars == {"a", "b", "B", "."}
\* what the group (10\.\d{4,9}/[^\s]+) can capture
DoiMatches == { <<DoiHead>> \o x : x \in SeqsUpTo(DoiSuffixChars, MaxSuffixLen) \ {<<>>} }

InitDoi ==
    /\ doi_dir \in {"missing", "no_txt_files", "unreadable", "readable"}
    /\ doi_matches \in IF doi_dir = "readable" THEN SeqsUpTo(DoiMatches, MaxMatches) ELSE {<<>>}
    /\ doi_result = PENDING

IdleDoi ==
    /\ doi_dir = "missing"
    /\ doi_matches = <<>>
    /\ doi_result = PENDING

CallGetDoi ==
    /\ doi_result = PENDING
    /\ doi_result' = Ok(get_doi(doi_dir, doi_matches))
    /\ UNCHANGED << doi_dir, doi_matches >>
    /\ FrameDoi

NextDoi == CallGetDoi

(***************************************************************************)
(* utils.get_output_dir_final                                              *)
(*                                                                         *)
(* A pathlib.Path is its root ("", "/" or "//") and its components; str()  *)
(* and Path() convert between a Path and its characters (POSIX flavour,    *)
(* names without dots or backslashes).                                     *)
(***************************************************************************)

RECURSIVE JoinSlash(_)
JoinSlash(parts) ==
    IF parts = <<>> THEN <<>>
    ELSE IF Len(parts) = 1 THEN parts[1]
    ELSE parts[1] \o <<"/">> \o JoinSlash(Tail(parts))

\* str(path)
PathStr(path) ==
    IF path.root = "" /\ path.parts = <<>> THEN <<".">>
    ELSE (IF path.root = "/" THEN <<"/">>
          ELSE IF path.root = "//" THEN <<"/", "/">> ELSE <<>>) \o JoinSlash(path.parts)

\* Path(str): empty components vanish; exactly two leading slashes are kept
PathOf(str) ==
    LET lead == IF \A i \in 1..Len(str) : str[i] = "/" THEN Len(str)
                ELSE (CHOOSE i \in 1..Len(str) :
                          str[i] # "/" /\ \A j \in 1..(i - 1) : str[j] = "/") - 1
    IN [root |-> IF lead = 0 THEN "" ELSE IF lead = 2 THEN "//" ELSE "/",
        parts |-> SelectSeq(split(str, "/"), LAMBDA c : c # <<>>)]

\* `needle in hay`
IsSubstring(needle, hay) ==
    \E i \in 1..(Len(hay) - Len(needle) + 1) : SubSeq(hay, i, i + Len(needle) - 1) = needle

\* hay.split(needle, 1)[1]: what follows the first occurrence
AfterLast(hay, needle) ==
    LET i == CHOOSE k \in 1..(Len(hay) - Len(needle) + 1) :
                 /\ SubSeq(hay, k, k + Len(needle) - 1) = needle
                 /\ \A l \in (k + 1)..(Len(hay) - Len(needle) + 1) :
                        SubSeq(hay, l, l + Len(needle) - 1) # needle
    IN SubSeq(hay, i + Len(needle), Len(hay))
AfterFirst(hay, needle) ==
    LET i == CHOOSE k \in 1..(Len(hay) - Len(needle) + 1) :
                 /\ SubSeq(hay, k, k + Len(needle) - 1) = needle
                 /\ \A l \in 1..(k - 1) : SubSeq(hay, l, l + Len(needle) - 1) # needle
    IN SubSeq(hay, i + Len(needle), Len(hay))

\* str.strip(chars)
StripChars(str, chars) ==
    IF \A i \in 1..Len(str) : str[i] \in chars THEN <<>>
    ELSE LET first == CHOOSE i \in 1..Len(str) :
                 str[i] \notin chars /\ \A j \in 1..(i - 1) : str[j] \in chars
             last == CHOOSE i \in 1..Len(str) :
                 str[i] \notin chars /\ \A j \in (i + 1)..Len(str) : str[j] \in chars
         IN SubSeq(str, first, last)

\* path.parent
Parent(path) ==
    IF path.parts = <<>> THEN path
    ELSE [root |-> path.root, parts |-> SubSeq(path.parts, 1, Len(path.parts) - 1)]

\* base / other
PathJoin(base, other) ==
    IF other.root # "" THEN other
    ELSE [root |-> base.root, parts |-> base.parts \o other.parts]

\* path.mkdir(parents=True, exist_ok=True): the path and its missing ancestors
MkdirParents(path) ==
    { [root |-> path.root, parts |-> SubSeq(path.parts, 1, k)] : k \in 1..Len(path.parts) }

\* the value returned, or the ValueError, before the directory is created
OutputDirFinal(output_dir, input_pdf, input_path_prefix) ==
    IF input_path_prefix = <<>> THEN Ok(output_dir)
    ELSE LET input_str == PathStr(input_pdf)
             prefix_str == PathStr(PathOf(input_path_prefix))
         IN IF ~IsSubstring(prefix_str, input_str)
            THEN Raise("ValueError: prefix not found")
            ELSE LET relative_subpath ==
                         Parent(PathOf(StripChars(StripChars(AfterFirst(input_str, prefix_str),
                                                             {"/"}), {"\\"})))
                 IN Ok(PathJoin(output_dir, relative_subpath))

CallGetOutputDirFinal ==
    /\ od_result = PENDING
    /\ LET r == OutputDirFinal(od_output_dir, od_input_pdf, od_input_path_prefix) IN
       IF r.kind = "ok" /\ od_input_path_prefix # <<>>
       THEN IF od_mkdir_ok
            THEN od_created' = od_created \cup MkdirParents(r.value) /\ od_result' = r
            ELSE od_created' = od_created /\ od_result' = Raise("OSError: mkdir")
       ELSE od_created' = od_created /\ od_result' = r
    /\ UNCHANGED << od_output_dir, od_input_pdf, od_input_path_prefix, od_mkdir_ok >>
    /\ FrameOutDir

NextOutDir == CallGetOutputDirFinal

\* ---- the specification of get_output_dir_final ----
MaxDepth == 3
MaxMarkerLen == 3

FileNames == { <<"a">>, <<"b">>, <<"a", "b">> }
AbsPath(parts) == [root |-> "/", parts |-> parts]

InitOutDir ==
    /\ od_output_dir \in { AbsPath(<< <<"o">> >>), AbsPath(<< <<"o">>, <<"p">> >>) }
    /\ od_input_pdf \in { AbsPath(q) : q \in SeqsUpTo(FileNames, MaxDepth) \ {<<>>} }
    /\ od_input_path_prefix \in SeqsUpTo({"/", "a", "b"}, MaxMarkerLen)
    /\ od_mkdir_ok \in BOOLEAN
    /\ od_created = {}
    /\ od_result = PENDING

IdleOutDir ==
    /\ od_output_dir = AbsPath(<<>>)
    /\ od_input_pdf = AbsPath(<<>>)
    /\ od_input_path_prefix = <<>>
    /\ od_mkdir_ok = TRUE
    /\ od_created = {}
    /\ od_result = PENDING

(***************************************************************************)
(* pipeline.process_pdf, one action per step of the function.              *)
(*                                                                         *)
(* A PDF file is its pages; an image file is named by the page it shows    *)
(* and, for a split page, by the part; a directory is the set of its       *)
(* files.  The temp root and the output tree start empty.                  *)
(***************************************************************************)

\* Python's None, for an option that holds a string
PyNone == "None"

PageOf(text) == [text |-> text, rect |-> PageRect, images |-> <<>>]
BlankPage == PageOf(<<>>)
TextPage == PageOf(<<"a">>)
\* a page as the OCR backend writes it: the image and a recognised text layer
OcrPage == PageOf(<<"1">>)

NoDir == [exists |-> FALSE, files |-> {}]
Dir(files) == [exists |-> TRUE, files |-> files]
ImageOf(page, part) == [page |-> page, part |-> part]

\* page_001.png, page_002.png, ... for the pages of a PDF (export_images)
PageImagesOf(pages) == { ImageOf(i, 0) : i \in 1..Len(pages) }

\* " ".join(list)
RECURSIVE JoinArgs(_)
JoinArgs(list) ==
    IF list = <<>> THEN ""
    ELSE IF Len(list) = 1 THEN list[1]
    ELSE list[1] \o " " \o JoinArgs(Tail(list))

DEFAULT_ARGS ==
    << "--mask-scan-size", "100", "--no-border-align", "--no-mask-center",
       "--no-grayfilter", "--no-blackfilter" >>

get_unpaper_args(layout, output_pages, pre_rotate, as_string, full) ==
    LET unpaper_args_list ==
            (IF full THEN DEFAULT_ARGS ELSE <<>>)
            \o (IF layout # PyNone THEN <<"--layout", layout>> ELSE <<>>)
            \o (IF pre_rotate # NONE THEN <<"--pre-rotate", ToString(pre_rotate)>> ELSE <<>>)
            \o (IF output_pages \in {"1", "2"} THEN <<"--output-pages", output_pages>> ELSE <<>>)
    IN IF as_string THEN JoinArgs(unpaper_args_list) ELSE unpaper_args_list

\* the keyword arguments run_ocrmypdf hands to ocrmypdf.ocr
NoCall == [backend |-> "none"]
run_ocrmypdf(layout, output_pages, rotated, clean_flag, debug_flag) ==
    LET layout1 == IF layout = "none" THEN PyNone ELSE layout
        layout2 == IF output_pages # PyNone THEN PyNone ELSE layout1
    IN [backend |-> "ocrmypdf",
        unpaper_args |-> get_unpaper_args(layout2, PyNone, NONE, TRUE, FALSE),
        rotate_pages |-> IF rotated # 0 THEN FALSE ELSE TRUE,
        clean |-> clean_flag,
        clean_final |-> clean_flag,
        keep_temporary_files |-> debug_flag]

\* run_ocr never passes clean_flag: run_ocrmypdf's default applies
CLEAN_FLAG_DEFAULT == TRUE

\* lines 327-329: the mode_args every run_unpaper_simple call of the loop gets
UnpaperArgs ==
    get_unpaper_args(pp_args.layout, pp_args.output_pages, pp_args.pre_rotate, FALSE, TRUE)

\* files_to_process = sorted(scans_dir.glob("*.png")), as page numbers
FilesToProcess == sorted({ f.page : f \in pp_dirs.scans_dir.files })

\* the files unpaper writes for one input image
UnpaperOutputs(page) ==
    IF pp_args.output_pages # PyNone
    THEN { ImageOf(page, k) : k \in 1..(IF pp_args.output_pages = "2" THEN 2 ELSE 1) }
    ELSE { ImageOf(page, 0) }

ppInputs == << pp_args, pp_input >>

\* output_pdf = output_dir / input_pdf.name (line 260) is the input file
\* itself when output_dir is the directory of the input
OutputPdf ==
    IF pp_output_dir = Parent(pp_args.input_pdf) THEN "input_pdf" ELSE "output_pdf"

\* lines 246-278: temp dir, output dir, file names, classification, page count
ProcessSetup ==
    /\ pp_pc = "start"
    /\ LET dir == OutputDirFinal(pp_args.output_dir, pp_args.input_pdf,
                                 pp_args.input_path_prefix) IN
       IF dir.kind = "error"
       THEN /\ pp_pc' = "raised"
            /\ pp_error' = dir.error
            /\ UNCHANGED << pp_output_dir, pp_is_scan, pp_total_pages_in >>
       ELSE /\ pp_pc' = "step1"
            /\ pp_output_dir' = dir.value
            /\ pp_is_scan' = has_no_text(pp_input)
            /\ pp_total_pages_in' = Len(pp_input)
            /\ UNCHANGED pp_error
    /\ UNCHANGED << ppInputs, pp_rotated, pp_files, pp_dirs, pp_temp_subdir, pp_idx,
                    pp_tools, pp_ocr, pp_metadata >>
    /\ pp_stages' = IF OutputDirFinal(pp_args.output_dir, pp_args.input_pdf,
                                      pp_args.input_path_prefix).kind = "error"
                    THEN pp_stages ELSE pp_stages \o <<"classify">>
    /\ FramePipeline

\* line 291: Step 2 is entered for a document classified as scanned only
Step2ForEveryDocument == "step2"
Step2IfScan == IF pp_is_scan THEN "step2" ELSE "step3"

\* lines 280-288, Step 1: keep the selected pages, or copy the input
ProcessStep1 ==
    /\ pp_pc = "step1"
    /\ IF pp_args.extract_pages_str # <<>>
       THEN LET pages_to_keep == parse_page_ranges(pp_args.extract_pages_str, pp_total_pages_in)
                with_orig == [pp_files EXCEPT !.output_orig = PdfFile(pp_input)]
            IN IF pages_to_keep.kind = "error"
               THEN /\ pp_files' = with_orig
                    /\ pp_pc' = "raised"
                    /\ pp_error' = pages_to_keep.error
               ELSE /\ pp_files' =
                          IF pages_to_keep.value = <<>> THEN with_orig
                          ELSE [with_orig EXCEPT !.tmp_pdf =
                                   PdfFile(AppendedPages(pp_input,
                                       ConvertedList(pages_to_keep.value, FALSE), <<>>))]
                    /\ pp_pc' = Step2IfScan
                    /\ UNCHANGED pp_error
       ELSE /\ pp_files' = [pp_files EXCEPT !.tmp_pdf = PdfFile(pp_input)]
            /\ pp_pc' = Step2IfScan
            /\ UNCHANGED pp_error
    /\ UNCHANGED << ppInputs, pp_output_dir, pp_is_scan, pp_total_pages_in, pp_rotated,
                    pp_dirs, pp_temp_subdir, pp_idx, pp_tools, pp_ocr, pp_metadata >>
    /\ pp_stages' = IF pp_args.extract_pages_str # <<>>
                    THEN pp_stages \o <<"extract">> ELSE pp_stages
    /\ FramePipeline

\* lines 291-324: working copy, scratch directory, rasters, orientation pass,
\* background crop
Step2Effects ==
    /\ pp_files' = [pp_files EXCEPT !.scan_pdf = pp_files.tmp_pdf]
    /\ pp_temp_subdir' = TRUE
    /\ pp_dirs' = [pp_dirs EXCEPT !.scans_dir = Dir(PageImagesOf(pp_files.tmp_pdf.pages)),
                                  !.pnm_subdir = Dir({})]
    /\ LET pages == Len(pp_files.tmp_pdf.pages)
           \* the programs run once for every page or raster
           raster == IF pages > 0 THEN <<"rasterizer">> ELSE <<>>
           osd == IF pages > 0 THEN <<"orientation">> ELSE <<>>
           crop == IF pp_args.remove_background_flag /\ pages > 0 THEN <<"crop">> ELSE <<>>
           version == IF pp_args.debug_flag THEN <<"unpaper --version">> ELSE <<>>
       IN IF pp_args.pre_rotate \notin {NONE, 0}
          THEN /\ pp_rotated' = 1
               /\ pp_tools' = pp_tools \o raster \o crop \o version
          ELSE /\ \E rotated_count \in 0..pages : pp_rotated' = rotated_count
               /\ pp_tools' = pp_tools \o raster \o osd \o crop \o version

\* lines 290-329, Step 2 up to the unpaper loop
ProcessStep2 ==
    /\ pp_pc = "step2"
    /\ IF ~pp_files.tmp_pdf.exists
       THEN /\ pp_pc' = "raised"
            /\ pp_error' = "FileNotFoundError: tmp_pdf"
            /\ UNCHANGED << pp_files, pp_dirs, pp_temp_subdir, pp_rotated, pp_idx, pp_tools >>
       ELSE /\ Step2Effects
            /\ pp_idx' = 1
            /\ pp_pc' = "unpaper"
            /\ UNCHANGED pp_error
    /\ UNCHANGED << ppInputs, pp_output_dir, pp_is_scan, pp_total_pages_in, pp_ocr, pp_metadata >>
    /\ pp_stages' = IF pp_files.tmp_pdf.exists
                    THEN pp_stages \o <<"scan-cleanup">> ELSE pp_stages
    /\ FramePipeline

\* lines 321-322 and unpaper_run.py 47-59: with debug_flag, run_unpaper_version
\* starts the unpaper program; when the program is not there subprocess.run
\* raises, and nothing catches it
ProcessStep2VersionFails ==
    /\ pp_pc = "step2"
    /\ pp_files.tmp_pdf.exists
    /\ pp_args.debug_flag
    /\ Step2Effects
    /\ pp_pc' = "raised"
    /\ pp_error' = "FileNotFoundError: unpaper"
    /\ UNCHANGED << ppInputs, pp_output_dir, pp_is_scan, pp_total_pages_in, pp_idx, pp_ocr,
                    pp_metadata >>
    /\ pp_stages' = pp_stages \o <<"scan-cleanup">>
    /\ FramePipeline

\* lines 331-345: run_unpaper_simple returns for the next image
ProcessUnpaperOk ==
    /\ pp_pc = "unpaper"
    /\ pp_idx <= Len(FilesToProcess)
    /\ pp_dirs' = [pp_dirs EXCEPT !.pnm_subdir =
                      Dir(pp_dirs.pnm_subdir.files \cup UnpaperOutputs(FilesToProcess[pp_idx]))]
    /\ pp_idx' = pp_idx + 1
    /\ pp_tools' = pp_tools \o <<"unpaper">>
    /\ UNCHANGED << ppInputs, pp_pc, pp_error, pp_output_dir, pp_is_scan, pp_total_pages_in,
                    pp_rotated, pp_files, pp_temp_subdir, pp_ocr, pp_metadata >>
    /\ UNCHANGED pp_stages
    /\ FramePipeline

\* lines 347-363: run_unpaper_simple raises for the next image (the tool is
\* not there, or it exits with an error) and wrote no file; the exception is
\* printed.  With debug_flag the handler goes on to build the command line
\* with temp_outfile.resolve(strict=True), which raises for the file that is
\* not there, and nothing catches that.
ProcessUnpaperFails ==
    /\ pp_pc = "unpaper"
    /\ pp_idx <= Len(FilesToProcess)
    /\ pp_tools' = pp_tools \o <<"unpaper">>
    /\ IF pp_args.debug_flag
       THEN /\ pp_pc' = "raised"
            /\ pp_error' = "FileNotFoundError: temp_outfile"
            /\ UNCHANGED pp_idx
       ELSE /\ pp_idx' = pp_idx + 1
            /\ UNCHANGED << pp_pc, pp_error >>
    /\ UNCHANGED << ppInputs, pp_output_dir, pp_is_scan, pp_total_pages_in,
                    pp_rotated, pp_files, pp_dirs, pp_temp_subdir, pp_ocr, pp_metadata >>
    /\ UNCHANGED pp_stages
    /\ FramePipeline

\* lines 365-386: the cleaned images become the result images and the new
\* tmp_pdf, or the raw rasters are copied forward
ProcessReassemble ==
    /\ pp_pc = "unpaper"
    /\ pp_idx > Len(FilesToProcess)
    /\ IF pp_dirs.pnm_subdir.files # {}
       THEN /\ pp_dirs' = [pp_dirs EXCEPT !.images_dir = Dir(pp_dirs.pnm_subdir.files)]
            /\ pp_files' = [pp_files EXCEPT !.tmp_pdf =
                   PdfFile([k \in 1..Cardinality(pp_dirs.pnm_subdir.files) |-> BlankPage])]
       ELSE /\ pp_dirs' = [pp_dirs EXCEPT !.images_dir =
                   Dir(pp_dirs.images_dir.files \cup pp_dirs.scans_dir.files)]
            /\ UNCHANGED pp_files
    /\ pp_pc' = "step3"
    /\ UNCHANGED << ppInputs, pp_error, pp_output_dir, pp_is_scan, pp_total_pages_in,
                    pp_rotated, pp_temp_subdir, pp_idx, pp_tools, pp_ocr, pp_metadata >>
    /\ pp_stages' = pp_stages \o <<"reassemble">>
    /\ FramePipeline

\* the call run_ocr makes for the chosen backend
OcrCall ==
    IF pp_args.ocrlib = "ocrmypdf"
    THEN run_ocrmypdf(pp_args.layout, pp_args.output_pages, pp_rotated,
                      CLEAN_FLAG_DEFAULT, pp_args.debug_flag)
    ELSE IF pp_args.ocrlib = "pymupdf" THEN [backend |-> "pymupdf"]
    ELSE NoCall

\* lines 388-406, Step 3: OCR of a scanned document, or a plain copy; then
\* tmp_pdf is removed
ProcessStep3 ==
    /\ pp_pc = "step3"
    /\ IF ~pp_files.tmp_pdf.exists /\ (~pp_is_scan \/ OcrCall = NoCall)
       THEN /\ pp_pc' = "raised"
            /\ pp_error' = "FileNotFoundError: tmp_pdf"
            /\ UNCHANGED << pp_files, pp_ocr, pp_tools >>
       ELSE /\ LET output ==
                       IF pp_is_scan /\ pp_args.ocrlib = "pymupdf"
                       THEN PdfFile([k \in 1..Cardinality(pp_dirs.images_dir.files) |-> OcrPage])
                       ELSE IF pp_is_scan /\ pp_args.ocrlib = "ocrmypdf"
                       THEN PdfFile([k \in 1..Len(pp_files.tmp_pdf.pages) |-> OcrPage])
                       ELSE pp_files.tmp_pdf
               IN pp_files' = [pp_files EXCEPT ![OutputPdf] = output, !.tmp_pdf = NoFile]
            /\ pp_ocr' = IF pp_is_scan THEN OcrCall ELSE NoCall
            /\ pp_tools' = IF pp_is_scan /\ OcrCall # NoCall
                           THEN pp_tools \o <<"ocr">> ELSE pp_tools
            /\ pp_pc' = "step4"
            /\ UNCHANGED pp_error
    /\ UNCHANGED << ppInputs, pp_output_dir, pp_is_scan, pp_total_pages_in,
                    pp_rotated, pp_dirs, pp_temp_subdir, pp_idx, pp_metadata >>
    /\ pp_stages' = IF pp_is_scan /\ OcrCall # NoCall
                    THEN pp_stages \o <<"ocr">> ELSE pp_stages
    /\ FramePipeline

\* where process_pdf is after an exception of the backend: run_ocr (lines
\* 88-100) and Step 3 (lines 390-400) have no try around the call
BackendErrorSwallowed == "step4"
BackendErrorLeaves == "raised"

\* lines 390-400: the OCR backend raises
ProcessStep3Fails ==
    /\ pp_pc = "step3"
    /\ pp_is_scan
    /\ OcrCall # NoCall
    /\ pp_ocr' = OcrCall
    /\ pp_tools' = pp_tools \o <<"ocr">>
    /\ pp_pc' = BackendErrorLeaves
    /\ pp_error' = "OCR backend error"
    /\ UNCHANGED << ppInputs, pp_output_dir, pp_is_scan, pp_total_pages_in, pp_rotated,
                    pp_files, pp_dirs, pp_temp_subdir, pp_idx, pp_metadata >>
    /\ pp_stages' = pp_stages \o <<"ocr">>
    /\ FramePipeline

\* pages_to_skip of Step 4
PagesToSkip == parse_page_ranges(pp_args.skip_pages_str, pp_total_pages_in)

\* lines 408-411, Step 4: the pages to skip are removed from output_pdf,
\* which extract_pages reads and writes at the same path
ProcessStep4 ==
    /\ pp_pc = "step4"
    /\ IF pp_args.skip_pages_str # <<>>
       THEN IF PagesToSkip.kind = "error"
            THEN /\ pp_pc' = "raised"
                 /\ pp_error' = PagesToSkip.error
                 /\ UNCHANGED pp_files
            ELSE /\ pp_files' =
                       IF PagesToSkip.value = <<>> THEN pp_files
                       ELSE [pp_files EXCEPT ![OutputPdf] =
                                PdfFile(AppendedPages(pp_files[OutputPdf].pages, <<>>,
                                                      ConvertedList(PagesToSkip.value, FALSE)))]
                 /\ pp_pc' = "step5"
                 /\ UNCHANGED pp_error
       ELSE /\ pp_pc' = "step5"
            /\ UNCHANGED << pp_files, pp_error >>
    /\ UNCHANGED << ppInputs, pp_output_dir, pp_is_scan, pp_total_pages_in, pp_rotated,
                    pp_dirs, pp_temp_subdir, pp_idx, pp_tools, pp_ocr, pp_metadata >>
    /\ pp_stages' = IF pp_args.skip_pages_str # <<>>
                    THEN pp_stages \o <<"skip">> ELSE pp_stages
    /\ FramePipeline

\* lines 411 and 71-74: new_pdf.save(output_pdf) raises before or after it
\* opened output_pdf for writing; extract_pages raises RuntimeError
ProcessStep4Fails ==
    /\ pp_pc = "step4"
    /\ pp_args.skip_pages_str # <<>>
    /\ PagesToSkip.kind = "ok"
    /\ PagesToSkip.value # <<>>
    /\ \E left \in {pp_files[OutputPdf], PartialFile} :
           pp_files' = [pp_files EXCEPT ![OutputPdf] = left]
    /\ pp_pc' = "raised"
    /\ pp_error' = "RuntimeError: Failed to extract pages"
    /\ UNCHANGED << ppInputs, pp_output_dir, pp_is_scan, pp_total_pages_in, pp_rotated,
                    pp_dirs, pp_temp_subdir, pp_idx, pp_tools, pp_ocr, pp_metadata >>
    /\ pp_stages' = pp_stages \o <<"skip">>
    /\ FramePipeline

\* line 415: the pages are exported as images for either flag, the
\* thumbnails being made from the images
ExportsImagesOwnFlag == pp_args.export_images_flag
ExportsImages == pp_args.export_images_flag \/ pp_args.export_thumbs_flag

\* lines 413-422, Step 5: page images and thumbnails of output_pdf
ProcessStep5 ==
    /\ pp_pc = "step5"
    /\ LET images == IF ExportsImages
                     THEN Dir(PageImagesOf(pp_files[OutputPdf].pages))
                     ELSE pp_dirs.images_dir
       IN pp_dirs' =
            IF ~pp_files[OutputPdf].exists THEN pp_dirs
            ELSE [pp_dirs EXCEPT !.images_dir = images,
                                 !.thumbs_dir = IF pp_args.export_thumbs_flag
                                                THEN Dir(images.files) ELSE @]
    /\ pp_tools' = IF pp_files[OutputPdf].exists /\ ExportsImages
                      /\ Len(pp_files[OutputPdf].pages) > 0
                   THEN pp_tools \o <<"rasterizer">> ELSE pp_tools
    /\ pp_pc' = "step6"
    /\ UNCHANGED << ppInputs, pp_error, pp_output_dir, pp_is_scan, pp_total_pages_in,
                    pp_rotated, pp_files, pp_temp_subdir, pp_idx, pp_ocr, pp_metadata >>
    /\ pp_stages' = IF pp_files[OutputPdf].exists /\ (ExportsImages \/ pp_args.export_thumbs_flag)
                    THEN pp_stages \o <<"export">> ELSE pp_stages
    /\ FramePipeline

\* the raw identifier matches in the exported text of the first page: the
\* page texts of the model hold none
RawMatches == <<>>

\* lines 424-442, Steps 6 and 7: page texts, the text summary, identifiers
ProcessStep6 ==
    /\ pp_pc = "step6"
    /\ LET total_pages_out == Len(pp_files[OutputPdf].pages) IN
       IF (pp_args.export_texts_flag \/ pp_args.get_doi_flag) /\ total_pages_out > 0
       THEN /\ pp_dirs' = [pp_dirs EXCEPT !.texts_dir =
                              Dir(PageImagesOf(pp_files[OutputPdf].pages))]
            /\ pp_files' = [pp_files EXCEPT !.summary_txt = PdfFile(pp_files[OutputPdf].pages)]
            /\ pp_metadata' = IF pp_args.get_doi_flag
                              THEN << <<"doi", get_doi("readable", RawMatches)>> >>
                              ELSE pp_metadata
       ELSE UNCHANGED << pp_dirs, pp_files, pp_metadata >>
    /\ pp_pc' = "write"
    /\ UNCHANGED << ppInputs, pp_error, pp_output_dir, pp_is_scan, pp_total_pages_in,
                    pp_rotated, pp_temp_subdir, pp_idx, pp_tools, pp_ocr >>
    /\ pp_stages' = IF (pp_args.export_texts_flag \/ pp_args.get_doi_flag)
                       /\ Len(pp_files[OutputPdf].pages) > 0
                    THEN pp_stages \o <<"text">>
                             \o (IF pp_args.get_doi_flag THEN <<"doi">> ELSE <<>>)
                    ELSE pp_stages
    /\ FramePipeline

\* lines 444-445: the metadata sidecar
ProcessWriteJson ==
    /\ pp_pc = "write"
    /\ pp_files' = [pp_files EXCEPT !.meta_json =
                       [exists |-> TRUE, complete |-> TRUE, pages |-> pp_metadata]]
    /\ pp_pc' = "returned"
    /\ UNCHANGED << ppInputs, pp_error, pp_output_dir, pp_is_scan, pp_total_pages_in,
                    pp_rotated, pp_dirs, pp_temp_subdir, pp_idx, pp_tools, pp_ocr, pp_metadata >>
    /\ pp_stages' = pp_stages \o <<"metadata">>
    /\ FramePipeline

Next ==
    \/ ProcessSetup
    \/ ProcessStep1
    \/ ProcessStep2
    \/ ProcessStep2VersionFails
    \/ ProcessUnpaperOk
    \/ ProcessUnpaperFails
    \/ ProcessReassemble
    \/ ProcessStep3
    \/ ProcessStep3Fails
    \/ ProcessStep4
    \/ ProcessStep4Fails
    \/ ProcessStep5
    \/ ProcessStep6
    \/ ProcessWriteJson

\* ---- the specification of process_pdf ----
MaxInputPages == 2

\* /a/b is the input file; the second marker occurs in its path, the third
\* does not
InputPdfPath == AbsPath(<< <<"a">>, <<"b">> >>)
PathPrefixes == { <<>>, <<"/", "a">>, <<"b", "/", "a">> }
PageSelectors == { <<>>, <<"1">>, <<"2", "-">> }
SkipSelectors == { <<>>, <<"1">>, <<"2">> }
OcrLibs == { PyNone, "pymupdf", "ocrmypdf" }
Layouts == { PyNone, "double" }
OutputPages == { PyNone, "2" }
PreRotates == { NONE, 0, 90 }

\* the path arguments and the page selectors: the output directory /o with
\* every marker, and the directory of the input, /a, without a marker
CommonArgs ==
    [ output_dir : { AbsPath(<< <<"o">> >>) },
      input_pdf : { InputPdfPath },
      input_path_prefix : PathPrefixes,
      extract_pages_str : PageSelectors,
      skip_pages_str : SkipSelectors ]
    \cup
    [ output_dir : { Parent(InputPdfPath) },
      input_pdf : { InputPdfPath },
      input_path_prefix : { <<>> },
      extract_pages_str : PageSelectors,
      skip_pages_str : SkipSelectors ]

\* the options that only Steps 2 and 3 of a scanned document read
ScanOptions ==
    [ ocrlib : OcrLibs,
      remove_background_flag : BOOLEAN,
      layout : Layouts,
      output_pages : OutputPages,
      pre_rotate : PreRotates,
      debug_flag : BOOLEAN ]
DefaultScanOptions ==
    [ ocrlib |-> PyNone, remove_background_flag |-> FALSE, layout |-> PyNone,
      output_pages |-> PyNone, pre_rotate |-> NONE, debug_flag |-> FALSE ]

\* the flags of Steps 5 to 7
ExportFlags ==
    [ get_doi_flag : BOOLEAN, export_images_flag : BOOLEAN,
      export_texts_flag : BOOLEAN, export_thumbs_flag : BOOLEAN ]
NoExportFlags ==
    [ get_doi_flag |-> FALSE, export_images_flag |-> FALSE,
      export_texts_flag |-> FALSE, export_thumbs_flag |-> FALSE ]
AllExportFlags ==
    [ get_doi_flag |-> TRUE, export_images_flag |-> TRUE,
      export_texts_flag |-> TRUE, export_thumbs_flag |-> TRUE ]

\* The calls explored.  A document with text never reads the scan options:
\* it is run with their defaults and every combination of flags.  A scanned
\* document is run with every combination of scan options and the flags all
\* off or all on, and with every backend and every combination of flags.
Args(input) ==
    LET options ==
            IF has_no_text(input)
            THEN (ScanOptions \X {NoExportFlags, AllExportFlags})
                 \cup ({ [DefaultScanOptions EXCEPT !.ocrlib = lib] : lib \in OcrLibs }
                       \X ExportFlags)
            ELSE {DefaultScanOptions} \X ExportFlags
    IN { c @@ o[1] @@ o[2] : c \in CommonArgs, o \in options }

NoFiles == [ input_pdf |-> NoFile, tmp_pdf |-> NoFile, scan_pdf |-> NoFile, output_pdf |-> NoFile,
             output_orig |-> NoFile, summary_txt |-> NoFile, meta_json |-> NoFile ]
NoDirs == [ scans_dir |-> NoDir, pnm_subdir |-> NoDir, images_dir |-> NoDir,
            thumbs_dir |-> NoDir, texts_dir |-> NoDir ]

InitLocals ==
    /\ pp_pc = "start"
    /\ pp_error = ""
    /\ pp_output_dir = AbsPath(<<>>)
    /\ pp_is_scan = FALSE
    /\ pp_total_pages_in = 0
    /\ pp_rotated = 0
    /\ pp_files = [NoFiles EXCEPT !.input_pdf = PdfFile(pp_input)]
    /\ pp_temp_subdir = FALSE
    /\ pp_idx = 0
    /\ pp_tools = <<>>
    /\ pp_ocr = NoCall
    /\ pp_metadata = <<>>
    /\ pp_stages = <<>>

\* the output tree starts empty
InitState ==
    /\ InitLocals
    /\ pp_dirs = NoDirs

Init ==
    /\ pp_input \in SeqsUpTo({BlankPage, TextPage}, MaxInputPages)
    /\ pp_args \in Args(pp_input)
    /\ InitState

\* ---- process_pdf run again: the images directory of the output tree holds
\* what an earlier run over a longer version of the document left ----
StaleImages == { ImageOf(1, 0), ImageOf(MaxInputPages + 1, 0) }

RerunArgs ==
    { c @@ o @@ f :
        c \in { a \in CommonArgs : a.output_dir # Parent(InputPdfPath) /\ a.input_path_prefix = <<>> },
        o \in { x \in ScanOptions : x.layout = PyNone /\ x.pre_rotate = NONE
                                      /\ ~x.remove_background_flag },
        f \in { NoExportFlags, AllExportFlags } }

InitRerun ==
    /\ pp_input \in SeqsUpTo({BlankPage}, MaxInputPages)
    /\ pp_args \in RerunArgs
    /\ InitLocals
    /\ pp_dirs \in { [NoDirs EXCEPT !.images_dir = images] :
                        images \in {NoDir} \cup { Dir(files) : files \in SUBSET StaleImages } }

IdlePipeline ==
    /\ pp_input = <<>>
    /\ pp_args = [output_dir |-> AbsPath(<<>>), input_pdf |-> AbsPath(<<>>),
                  input_path_prefix |-> <<>>, extract_pages_str |-> <<>>,
                  skip_pages_str |-> <<>>] @@ DefaultScanOptions @@ NoExportFlags
    /\ InitState

(***************************************************************************)
(* pipeline.export_images.  The entry at out_dir is missing, a file, or a  *)
(* directory with files and subdirectories.                                *)
(***************************************************************************)

NoEntry == [kind |-> "missing", files |-> {}, subdirs |-> {}]
FileEntry == [kind |-> "file", files |-> {}, subdirs |-> {}]
DirEntry(files, subdirs) == [kind |-> "dir", files |-> files, subdirs |-> subdirs]

\* utils.clear_dir(p): unlinks the files of a directory, keeps what is not a
\* file, and touches nothing when p is missing or is not a directory
clear_dir(p) ==
    IF p.kind # "dir" THEN p ELSE [p EXCEPT !.files = {}]

\* the function's effect on out_dir and what leaves it
export_images(pdf_path, out_dir) ==
    LET cleared == IF out_dir.kind = "dir" THEN clear_dir(out_dir) ELSE out_dir
    IN IF cleared.kind = "file"
       THEN \* out_dir.mkdir(parents=True, exist_ok=True) on a file
            [out_dir |-> cleared, result |-> Raise("FileExistsError")]
       ELSE LET made == [cleared EXCEPT !.kind = "dir"]
            IN IF ~pdf_path.exists
               THEN [out_dir |-> made, result |-> Ok(PyNone)]
               ELSE [out_dir |-> [made EXCEPT !.files = PageImagesOf(pdf_path.pages)],
                     result |-> Ok(PyNone)]

CallExportImages ==
    /\ ei_result = PENDING
    /\ LET call == export_images(ei_pdf_path, ei_out_dir)
       IN /\ ei_out_dir' = call.out_dir
          /\ ei_result' = call.result
    /\ UNCHANGED ei_pdf_path
    /\ FrameExport

NextExport == CallExportImages

MaxExportPages == 2
MaxStaleImages == 3

InitExport ==
    /\ ei_pdf_path \in {NoFile} \cup
           { PdfFile(pages) : pages \in SeqsUpTo({BlankPage, TextPage}, MaxExportPages) }
    /\ ei_out_dir \in {NoEntry, FileEntry} \cup
           { DirEntry(files, subdirs) :
               files \in SUBSET { ImageOf(i, 0) : i \in 1..MaxStaleImages },
               subdirs \in SUBSET {"sub"} }
    /\ ei_result = PENDING

IdleExport ==
    /\ ei_pdf_path = NoFile
    /\ ei_out_dir = NoEntry
    /\ ei_result = PENDING

(***************************************************************************)
(* scraper.tools.wait_for_download.  A file name is the sequence of its    *)
(* characters; the browser adds and removes files of the download folder   *)
(* while the function polls.  The clock counts sleeps of 0.5 s.            *)
(***************************************************************************)

endswith(s, suffix) ==
    Len(suffix) <= Len(s) /\ SubSeq(s, Len(s) - Len(suffix) + 1, Len(s)) = suffix

\* PurePath.stem: the name up to its last dot, when that dot is neither the
\* first nor the last character
stem(name) ==
    LET dots == { i \in 2..(Len(name) - 1) : name[i] = "." }
    IN IF dots = {} THEN name
       ELSE SubSeq(name, 1, (CHOOSE i \in dots : \A j \in dots : j <= i) - 1)

\* folder.glob("*.crdownload"), folder.glob("*.pdf")
glob(folder, suffix) == { f \in folder : endswith(f, suffix) }

\* re.sub(r"\s*\(\d+\)$", "", s): the match is a closing parenthesis at the
\* end, digits before it, the opening parenthesis, and the whitespace before
\* that
clean_stem(s) ==
    LET opens == { j \in 1..(Len(s) - 2) :
                     /\ s[j] = "("
                     /\ \A k \in (j + 1)..(Len(s) - 1) : s[k] \in DigitChars }
    IN IF Len(s) >= 3 /\ s[Len(s)] = ")" /\ opens # {}
       THEN rstrip(SubSeq(s, 1, (CHOOSE j \in opens : TRUE) - 1))
       ELSE s

\* line 31: not list(folder.glob("*.crdownload"))
DownloadsIgnored(folder) == TRUE
DownloadsFinished(folder) == glob(folder, <<".", "c", "r", "d", "o", "w", "n", "l", "o", "a", "d">>) = {}

\* lines 32-36: the files the for loop can return, glob yielding in any order
Downloaded(folder, expected_stem) ==
    { f \in glob(folder, <<".", "p", "d", "f">>) : clean_stem(stem(f)) = expected_stem }

Polling == wd_pc = "loop"

\* lines 26-27
CallWaitForDownload ==
    /\ wd_pc = "start"
    /\ wd_end_time' = wd_now + wd_timeout
    /\ wd_pc' = "loop"
    /\ UNCHANGED << wd_folder, wd_pdf_name, wd_timeout, wd_now, wd_result >>
    /\ FrameDownload

\* lines 29-36: an iteration that finds the file
WaitReturns ==
    /\ Polling
    /\ wd_now < wd_end_time
    /\ DownloadsFinished(wd_folder)
    /\ \E f \in Downloaded(wd_folder, stem(wd_pdf_name)) : wd_result' = Ok(f)
    /\ wd_pc' = "returned"
    /\ UNCHANGED << wd_folder, wd_pdf_name, wd_timeout, wd_now, wd_end_time >>
    /\ FrameDownload

MaxSleep == 2

\* lines 29-38: an iteration that finds nothing and sleeps; the sleep takes
\* its time or longer
WaitSleeps ==
    /\ Polling
    /\ wd_now < wd_end_time
    /\ ~( DownloadsFinished(wd_folder) /\ Downloaded(wd_folder, stem(wd_pdf_name)) # {} )
    /\ \E slept \in 1..MaxSleep : wd_now' = wd_now + slept
    /\ UNCHANGED << wd_folder, wd_pdf_name, wd_timeout, wd_end_time, wd_pc, wd_result >>
    /\ FrameDownload

\* lines 29 and 40: the loop condition fails
WaitTimesOut ==
    /\ Polling
    /\ wd_now >= wd_end_time
    /\ wd_result' = Raise("RuntimeError: Download timed out")
    /\ wd_pc' = "raised"
    /\ UNCHANGED << wd_folder, wd_pdf_name, wd_timeout, wd_now, wd_end_time >>
    /\ FrameDownload

\* the names the folder can hold
DownloadNames ==
    { << "a", ".", "p", "d", "f" >>,
      << "a", " ", "(", "1", ")", ".", "p", "d", "f" >>,
      << "a", " ", "(", "b", ")", ".", "p", "d", "f" >>,
      << "b", ".", "p", "d", "f" >>,
      << "a", ".", "p", "d", "f", ".", "c", "r", "d", "o", "w", "n", "l", "o", "a", "d" >> }

\* the browser creates or removes a file while the function polls
BrowserStep ==
    /\ Polling
    /\ \E f \in DownloadNames :
           wd_folder' = IF f \in wd_folder THEN wd_folder \ {f} ELSE wd_folder \cup {f}
    /\ UNCHANGED << wd_pdf_name, wd_timeout, wd_now, wd_end_time, wd_pc, wd_result >>
    /\ FrameDownload

WaitStep == CallWaitForDownload \/ WaitReturns \/ WaitSleeps \/ WaitTimesOut

NextDownload ==
    \/ CallWaitForDownload
    \/ WaitReturns
    \/ WaitSleeps
    \/ WaitTimesOut
    \/ BrowserStep

MaxTimeout == 2

InitDownload ==
    /\ wd_folder \in SUBSET DownloadNames
    /\ wd_pdf_name \in { << "a" >>, << "a", " ", "(", "1", ")" >>, << "a", ".", "b" >>, << "c" >> }
    /\ wd_timeout \in 0..MaxTimeout
    /\ wd_now = 0
    /\ wd_end_time = 0
    /\ wd_pc = "start"
    /\ wd_result = PENDING

IdleDownload ==
    /\ wd_folder = {}
    /\ wd_pdf_name = <<>>
    /\ wd_timeout = 0
    /\ wd_now = 0
    /\ wd_end_time = 0
    /\ wd_pc = "start"
    /\ wd_result = PENDING

(***************************************************************************)
(* Two runs of process_pdf that share the temp root, one step per file     *)
(* operation on the temp root.  The documents are scanned or not, the OCR  *)
(* backend is the default of the CLI (ocrmypdf, which reads tmp_pdf).      *)
(***************************************************************************)

Runs == {1, 2}

\* the resolved input path of each run
InputOf(run) == IF run = 1 THEN AbsPath(<< <<"a">>, <<"b">> >>) ELSE AbsPath(<< <<"b">>, <<"b">> >>)

\* lines 262-265: temp_dir / f"{base_hash}_{input_pdf.stem}.tmp.pdf" and
\* ".scan.pdf", base_hash being the digest of the input path; two paths of
\* the model have two digests
TempFile(run, suffix) == [base |-> PathStr(InputOf(run)), suffix |-> suffix]
tmp_pdf(run) == TempFile(run, ".tmp.pdf")
scan_pdf(run) == TempFile(run, ".scan.pdf")

\* utils.get_temp_dir(clean): with clean every file of temp_dir is removed
get_temp_dir(temp, clean) == IF clean THEN {} ELSE temp

\* line 248
RunGetTempDir(run) ==
    /\ tr_pc[run] = "start"
    /\ tr_temp' = get_temp_dir(tr_temp, tr_args[run].clear_temp_flag)
    /\ tr_pc' = [tr_pc EXCEPT ![run] = "step1"]
    /\ UNCHANGED << tr_args, tr_error >>

\* lines 281-288, Step 1: tmp_pdf is written
RunStep1(run) ==
    /\ tr_pc[run] = "step1"
    /\ tr_temp' = tr_temp \cup {tmp_pdf(run)}
    /\ tr_pc' = [tr_pc EXCEPT ![run] = IF tr_args[run].is_scan THEN "copy" ELSE "step3"]
    /\ UNCHANGED << tr_args, tr_error >>

\* line 293: shutil.copy2(tmp_pdf, scan_pdf)
RunStep2Copy(run) ==
    /\ tr_pc[run] = "copy"
    /\ IF tmp_pdf(run) \in tr_temp
       THEN /\ tr_temp' = tr_temp \cup {scan_pdf(run)}
            /\ tr_pc' = [tr_pc EXCEPT ![run] = "raster"]
            /\ UNCHANGED tr_error
       ELSE /\ tr_pc' = [tr_pc EXCEPT ![run] = "raised"]
            /\ tr_error' = [tr_error EXCEPT ![run] = "FileNotFoundError: tmp_pdf"]
            /\ UNCHANGED tr_temp
    /\ UNCHANGED tr_args

\* lines 301-363: export_images(tmp_pdf, scans_dir) reads tmp_pdf, or makes
\* no image when it is gone; orientation, crop and unpaper work in the
\* mkdtemp directory
RunStep2Raster(run) ==
    /\ tr_pc[run] = "raster"
    /\ tr_pc' = [tr_pc EXCEPT ![run] =
                    IF tmp_pdf(run) \in tr_temp THEN "reassemble" ELSE "reassemble_empty"]
    /\ UNCHANGED << tr_args, tr_temp, tr_error >>

\* lines 365-386: images_to_pdf writes tmp_pdf when unpaper made images;
\* otherwise the rasters are copied forward and tmp_pdf is left alone
RunStep2Reassemble(run) ==
    /\ tr_pc[run] \in {"reassemble", "reassemble_empty"}
    /\ \E has_images \in IF tr_pc[run] = "reassemble" THEN BOOLEAN ELSE {FALSE} :
           tr_temp' = IF has_images THEN tr_temp \cup {tmp_pdf(run)} ELSE tr_temp
    /\ tr_pc' = [tr_pc EXCEPT ![run] = "step3"]
    /\ UNCHANGED << tr_args, tr_error >>

\* lines 389-406, Step 3: the backend or shutil.copy2 reads tmp_pdf, then
\* tmp_pdf is unlinked
RunStep3(run) ==
    /\ tr_pc[run] = "step3"
    /\ IF tmp_pdf(run) \in tr_temp
       THEN /\ tr_temp' = tr_temp \ {tmp_pdf(run)}
            /\ tr_pc' = [tr_pc EXCEPT ![run] = "step4"]
            /\ UNCHANGED tr_error
       ELSE /\ tr_pc' = [tr_pc EXCEPT ![run] = "raised"]
            /\ tr_error' = [tr_error EXCEPT ![run] = "FileNotFoundError: tmp_pdf"]
            /\ UNCHANGED tr_temp
    /\ UNCHANGED tr_args

GetTempDirStep == \E run \in Runs : RunGetTempDir(run) /\ FrameTwoRuns
Step1Step == \E run \in Runs : RunStep1(run) /\ FrameTwoRuns
Step2CopyStep == \E run \in Runs : RunStep2Copy(run) /\ FrameTwoRuns
Step2RasterStep == \E run \in Runs : RunStep2Raster(run) /\ FrameTwoRuns
Step2ReassembleStep == \E run \in Runs : RunStep2Reassemble(run) /\ FrameTwoRuns
Step3Step == \E run \in Runs : RunStep3(run) /\ FrameTwoRuns

NextTwoRuns ==
    \/ GetTempDirStep
    \/ Step1Step
    \/ Step2CopyStep
    \/ Step2RasterStep
    \/ Step2ReassembleStep
    \/ Step3Step

\* the temp root holds what earlier runs over other documents left
LeftInTemp == { [base |-> << "/", "c", "/", "b" >>, suffix |-> ".scan.pdf"] }

InitTwoRuns ==
    /\ tr_args \in [Runs -> [clear_temp_flag : BOOLEAN, is_scan : BOOLEAN]]
    /\ tr_pc = [run \in Runs |-> "start"]
    /\ tr_temp \in SUBSET LeftInTemp
    /\ tr_error = [run \in Runs |-> ""]

IdleTwoRuns ==
    /\ tr_args = [run \in Runs |-> [clear_temp_flag |-> FALSE, is_scan |-> FALSE]]
    /\ tr_pc = [run \in Runs |-> "start"]
    /\ tr_temp = {}
    /\ tr_error = [run \in Runs |-> ""]

(***************************************************************************)
(* scraper.tools.save_page_as_pdf and the shared driver of                 *)
(* scraper/service.py, over a sequence of calls for one URL.               *)
(***************************************************************************)

\* service._driver: None, or the running browser with the options it was
\* started with
NoDriver == [open |-> FALSE, download_dir |-> "", ua |-> ""]
Driver(download_dir, ua) == [open |-> TRUE, download_dir |-> download_dir, ua |-> ua]

\* service.create_custom_driver: a browser is started only when none is held
create_custom_driver(driver, download_dir, ua) ==
    IF driver = NoDriver THEN Driver(download_dir, ua) ELSE driver

\* service.close_driver
close_driver(driver) == NoDriver

\* line 86: download_dir = output_dir / "_downloads"
DownloadDirOf(temp_dir) == temp_dir \o "/_downloads"

\* lines 180-183: the return value
SaveReturn(exists) == IF exists THEN Ok("output_pdf") ELSE Ok(PyNone)

\* lines 75-110: the file is there and is kept, or the browser is started
\* and asked for the page
SaveStart ==
    /\ sc_pc = "called"
    /\ IF sc_output_pdf /\ ~sc_args.force_download
       THEN /\ sc_pc' = "ended"
            /\ sc_result' = SaveReturn(sc_output_pdf)
            /\ UNCHANGED sc_driver
       ELSE /\ sc_driver' = create_custom_driver(sc_driver, DownloadDirOf(sc_args.temp_dir),
                                                 sc_args.ua)
            /\ sc_pc' = "fetching"
            /\ UNCHANGED sc_result
    /\ UNCHANGED << sc_args, sc_output_pdf >>
    /\ FrameScraper

\* lines 110-113: driver.get or the log query raises
SaveGetRaises ==
    /\ sc_pc = "fetching"
    /\ sc_pc' = "ended"
    /\ sc_result' = Raise("WebDriverException")
    /\ UNCHANGED << sc_args, sc_driver, sc_output_pdf >>
    /\ FrameScraper

\* lines 119 and 159-183: the status is not 200 or no content type was seen
SaveNotFetched ==
    /\ sc_pc = "fetching"
    /\ sc_driver' = close_driver(sc_driver)
    /\ sc_pc' = "ended"
    /\ sc_result' = SaveReturn(sc_output_pdf)
    /\ UNCHANGED << sc_args, sc_output_pdf >>
    /\ FrameScraper

\* lines 121-140 and 159-183: a PDF response, downloaded and moved in place
SavePdfDownloaded ==
    /\ sc_pc = "fetching"
    /\ sc_output_pdf' = TRUE
    /\ sc_driver' = close_driver(sc_driver)
    /\ sc_pc' = "ended"
    /\ sc_result' = SaveReturn(TRUE)
    /\ UNCHANGED sc_args
    /\ FrameScraper

\* lines 131-133: wait_for_download raises its timeout error
SavePdfTimesOut ==
    /\ sc_pc = "fetching"
    /\ sc_pc' = "ended"
    /\ sc_result' = Raise("RuntimeError: Download timed out")
    /\ UNCHANGED << sc_args, sc_driver, sc_output_pdf >>
    /\ FrameScraper

\* lines 142-159 and 180-183: an HTML page, printed to output_pdf
SaveHtmlRendered ==
    /\ sc_pc = "fetching"
    /\ sc_output_pdf' = TRUE
    /\ sc_driver' = close_driver(sc_driver)
    /\ sc_pc' = "ended"
    /\ sc_result' = SaveReturn(TRUE)
    /\ UNCHANGED sc_args
    /\ FrameScraper

\* lines 146-153: WebDriverWait times out or the print command raises
SaveHtmlRaises ==
    /\ sc_pc = "fetching"
    /\ sc_pc' = "ended"
    /\ sc_result' = Raise("TimeoutException")
    /\ UNCHANGED << sc_args, sc_driver, sc_output_pdf >>
    /\ FrameScraper

SaveTempDirs == { "/t1", "/t2" }
SaveUserAgents == { "ua1", "ua2" }
SaveArgs == [ temp_dir : SaveTempDirs, ua : SaveUserAgents, force_download : BOOLEAN ]

\* the caller calls save_page_as_pdf again
SaveCalledAgain ==
    /\ sc_pc = "ended"
    /\ sc_args' \in SaveArgs
    /\ sc_pc' = "called"
    /\ sc_result' = PENDING
    /\ UNCHANGED << sc_driver, sc_output_pdf >>
    /\ FrameScraper

NextScraper ==
    \/ SaveStart
    \/ SaveGetRaises
    \/ SaveNotFetched
    \/ SavePdfDownloaded
    \/ SavePdfTimesOut
    \/ SaveHtmlRendered
    \/ SaveHtmlRaises
    \/ SaveCalledAgain

InitScraper ==
    /\ sc_args \in SaveArgs
    /\ sc_driver = NoDriver
    /\ sc_output_pdf \in BOOLEAN
    /\ sc_pc = "called"
    /\ sc_result = PENDING

IdleScraper ==
    /\ sc_args = [temp_dir |-> "/t1", ua |-> "ua1", force_download |-> FALSE]
    /\ sc_driver = NoDriver
    /\ sc_output_pdf = FALSE
    /\ sc_pc = "called"
    /\ sc_result = PENDING

(***************************************************************************)
(* The output directory from the command line to the first write:          *)
(* cli.main calls utils.get_output_dir, process_pdf calls                  *)
(* get_output_dir_final and then writes output_orig (Step 1) or output_pdf *)
(* (Step 3).                                                               *)
(***************************************************************************)

\* an option or environment variable that is not set
NoPath == [root |-> "", parts |-> <<>>]

\* find_project_root() / "instance" / RELATIVE_OUTPUT_DIR
DefaultOutputDir == AbsPath(<< <<"p">>, <<"i">>, <<"o">> >>)

\* utils.get_output_dir: the directory and whether the function creates it
get_output_dir(output_dir, env_outdir) ==
    IF output_dir # NoPath THEN [path |-> output_dir, mkdir |-> FALSE]
    ELSE IF env_outdir # NoPath THEN [path |-> env_outdir, mkdir |-> FALSE]
    ELSE [path |-> DefaultOutputDir, mkdir |-> TRUE]

\* the input file /a/b/a
OutRootInput == AbsPath(<< <<"a">>, <<"b">>, <<"a">> >>)

\* cli.py: output_dir = get_output_dir(output_dir=output_dir)
CliGetOutputDir ==
    /\ or_pc = "cli"
    /\ LET dir == get_output_dir(or_option, or_env)
       IN /\ or_output_dir' = dir.path
          /\ or_dirs' = IF dir.mkdir THEN or_dirs \cup MkdirParents(dir.path) ELSE or_dirs
    /\ or_pc' = "process_pdf"
    /\ UNCHANGED << or_option, or_env, or_input_path_prefix, or_extract_pages_str, or_error >>
    /\ FrameOutRoot

\* pipeline.py line 259: get_output_dir_final, which creates the directory
\* only with a marker
RunGetOutputDirFinal ==
    /\ or_pc = "process_pdf"
    /\ LET dir == OutputDirFinal(or_output_dir, OutRootInput, or_input_path_prefix)
       IN IF dir.kind = "error"
          THEN /\ or_pc' = "raised"
               /\ or_error' = dir.error
               /\ UNCHANGED << or_output_dir, or_dirs >>
          ELSE /\ or_pc' = "write"
               /\ or_output_dir' = dir.value
               /\ or_dirs' = IF or_input_path_prefix # <<>>
                             THEN or_dirs \cup MkdirParents(dir.value) ELSE or_dirs
               /\ UNCHANGED or_error
    /\ UNCHANGED << or_option, or_env, or_input_path_prefix, or_extract_pages_str >>
    /\ FrameOutRoot

\* the first file process_pdf writes below output_dir: output_orig with a
\* page selector (line 283), output_pdf otherwise (lines 390-403)
FirstFile == IF or_extract_pages_str THEN "output_orig" ELSE "output_pdf"

\* shutil.copy2 or the backend opens the file for writing
RunFirstWrite ==
    /\ or_pc = "write"
    /\ IF or_output_dir \in or_dirs
       THEN /\ or_pc' = "written"
            /\ UNCHANGED or_error
       ELSE /\ or_pc' = "raised"
            /\ or_error' = "FileNotFoundError: " \o FirstFile
    /\ UNCHANGED << or_option, or_env, or_input_path_prefix, or_extract_pages_str,
                    or_dirs, or_output_dir >>
    /\ FrameOutRoot

NextOutRoot == CliGetOutputDir \/ RunGetOutputDirFinal \/ RunFirstWrite

ExplicitOutDir == AbsPath(<< <<"o">> >>)
EnvOutDir == AbsPath(<< <<"e">> >>)
OutRootPrefixes == { <<>>, <<"/", "a">>, <<"/", "b">>, <<"b", "/", "b">> }

InitOutRoot ==
    /\ or_option \in {NoPath, ExplicitOutDir}
    /\ or_env \in {NoPath, EnvOutDir}
    /\ or_input_path_prefix \in OutRootPrefixes
    /\ or_extract_pages_str \in BOOLEAN
    /\ or_dirs \in SUBSET {ExplicitOutDir, EnvOutDir}
    /\ or_output_dir = NoPath
    /\ or_pc = "cli"
    /\ or_error = ""

IdleOutRoot ==
    /\ or_option = NoPath
    /\ or_env = NoPath
    /\ or_input_path_prefix = <<>>
    /\ or_extract_pages_str = FALSE
    /\ or_dirs = {}
    /\ or_output_dir = NoPath
    /\ or_pc = "cli"
    /\ or_error = ""

(***************************************************************************)
(* Specifications: one per component; the variables of the other           *)
(* components stay idle.                                                   *)
(***************************************************************************)

StartParse == InitParse /\ IdleClassify /\ IdleExtract /\ IdleDoi /\ IdleOutDir /\ IdlePipeline /\ IdleExport /\ IdleDownload /\ IdleTwoRuns /\ IdleScraper /\ IdleOutRoot
SpecParse == StartParse /\ [][NextParse]_vars

StartClassify == InitClassify /\ IdleParse /\ IdleExtract /\ IdleDoi /\ IdleOutDir /\ IdlePipeline /\ IdleExport /\ IdleDownload /\ IdleTwoRuns /\ IdleScraper /\ IdleOutRoot
SpecClassify == StartClassify /\ [][NextClassify]_vars

StartExtract == InitExtract /\ IdleParse /\ IdleClassify /\ IdleDoi /\ IdleOutDir /\ IdlePipeline /\ IdleExport /\ IdleDownload /\ IdleTwoRuns /\ IdleScraper /\ IdleOutRoot
SpecExtract == StartExtract /\ [][NextExtract]_vars

StartDoi == InitDoi /\ IdleParse /\ IdleClassify /\ IdleExtract /\ IdleOutDir /\ IdlePipeline /\ IdleExport /\ IdleDownload /\ IdleTwoRuns /\ IdleScraper /\ IdleOutRoot
SpecDoi == StartDoi /\ [][NextDoi]_vars

StartOutDir == InitOutDir /\ IdleParse /\ IdleClassify /\ IdleExtract /\ IdleDoi /\ IdlePipeline /\ IdleExport /\ IdleDownload /\ IdleTwoRuns /\ IdleScraper /\ IdleOutRoot
SpecOutDir == StartOutDir /\ [][NextOutDir]_vars

StartPipeline == Init /\ IdleParse /\ IdleClassify /\ IdleExtract /\ IdleDoi /\ IdleOutDir /\ IdleExport /\ IdleDownload /\ IdleTwoRuns /\ IdleScraper /\ IdleOutRoot
Spec == StartPipeline /\ [][Next]_vars

StartRerun == InitRerun /\ IdleParse /\ IdleClassify /\ IdleExtract /\ IdleDoi /\ IdleOutDir /\ IdleExport /\ IdleDownload /\ IdleTwoRuns /\ IdleScraper /\ IdleOutRoot
SpecRerun == StartRerun /\ [][Next]_vars

StartExport == InitExport /\ IdleParse /\ IdleClassify /\ IdleExtract /\ IdleDoi /\ IdleOutDir /\ IdlePipeline /\ IdleDownload /\ IdleTwoRuns /\ IdleScraper /\ IdleOutRoot
SpecExport == StartExport /\ [][NextExport]_vars

StartDownload == InitDownload /\ IdleParse /\ IdleClassify /\ IdleExtract /\ IdleDoi /\ IdleOutDir /\ IdlePipeline /\ IdleExport /\ IdleTwoRuns /\ IdleScraper /\ IdleOutRoot
SpecDownload == StartDownload /\ [][NextDownload]_vars
\* the thread that runs wait_for_download keeps running: time.sleep returns
SpecDownloadFair == SpecDownload /\ WF_vars(WaitStep)

StartTwoRuns == InitTwoRuns /\ IdleParse /\ IdleClassify /\ IdleExtract /\ IdleDoi /\ IdleOutDir /\ IdlePipeline /\ IdleExport /\ IdleDownload /\ IdleScraper /\ IdleOutRoot
SpecTwoRuns == StartTwoRuns /\ [][NextTwoRuns]_vars

StartScraper == InitScraper /\ IdleParse /\ IdleClassify /\ IdleExtract /\ IdleDoi /\ IdleOutDir /\ IdlePipeline /\ IdleExport /\ IdleDownload /\ IdleTwoRuns /\ IdleOutRoot
SpecScraper == StartScraper /\ [][NextScraper]_vars

StartOutRoot == InitOutRoot /\ IdleParse /\ IdleClassify /\ IdleExtract /\ IdleDoi /\ IdleOutDir /\ IdlePipeline /\ IdleExport /\ IdleDownload /\ IdleTwoRuns /\ IdleScraper
SpecOutRoot == StartOutRoot /\ [][NextOutRoot]_vars

(***************************************************************************)
(* Page-range algebra: what a selector denotes (spec section 4.1), stated  *)
(* on the characters of the expression, independently of ParseParts.       *)
(***************************************************************************)

Tokens(str) == split(str, ",")

IsSingleToken(t) == IsIntLiteral(t)

IsOpenToken(t) ==
    /\ Len(t) >= 2
    /\ t[Len(t)] = "-"
    /\ IsIntLiteral(SubSeq(t, 1, Len(t) - 1))

IsClosedToken(t) ==
    \E i \in 2..(Len(t) - 1) :
        /\ t[i] = "-"
        /\ IsIntLiteral(SubSeq(t, 1, i - 1))
        /\ IsIntLiteral(SubSeq(t, i + 1, Len(t)))

WellFormed(str) ==
    \A k \in 1..Len(Tokens(str)) :
        LET t == Tokens(str)[k] IN IsSingleToken(t) \/ IsOpenToken(t) \/ IsClosedToken(t)

DashAt(t) == CHOOSE i \in 1..Len(t) : t[i] = "-"

\* the pages a well-formed token denotes
Denote(t, total) ==
    IF IsSingleToken(t) THEN {IntOf(t)}
    ELSE IF IsOpenToken(t) THEN IntOf(SubSeq(t, 1, Len(t) - 1)) .. total
    ELSE IntOf(SubSeq(t, 1, DashAt(t) - 1)) .. IntOf(SubSeq(t, DashAt(t) + 1, Len(t)))

DenoteAll(str, total) ==
    UNION { Denote(Tokens(str)[k], total) : k \in 1..Len(Tokens(str)) }

\* the first and last page a token names (for an open token, the last is total)
Endpoints(t, total) ==
    IF IsSingleToken(t) THEN {IntOf(t)}
    ELSE IF IsOpenToken(t) THEN {IntOf(SubSeq(t, 1, Len(t) - 1)), total}
    ELSE {IntOf(SubSeq(t, 1, DashAt(t) - 1)), IntOf(SubSeq(t, DashAt(t) + 1, Len(t)))}

InRange(str, total) ==
    /\ total # NONE
    /\ WellFormed(str)
    /\ \A k \in 1..Len(Tokens(str)) : Endpoints(Tokens(str)[k], total) \subseteq 1..total

RECURSIVE JoinComma(_)
JoinComma(toks) ==
    IF toks = <<>> THEN <<>>
    ELSE IF Len(toks) = 1 THEN toks[1]
    ELSE toks[1] \o <<",">> \o JoinComma(Tail(toks))

Reverse(q) == [i \in 1..Len(q) |-> q[Len(q) + 1 - i]]

StrictlyAscending(q) == \A i \in 1..Len(q) : \A j \in 1..Len(q) : i < j => q[i] < q[j]

\* C1: whenever parse_page_ranges returns a list, the list is strictly
\* ascending and every element lies in [1, total_pages].
C1_ResultAscendingWithinBounds ==
    parse_result.kind = "ok" =>
        /\ StrictlyAscending(parse_result.value)
        /\ \A i \in 1..Len(parse_result.value) :
               1 <= parse_result.value[i] /\ parse_result.value[i] <= total_pages

\* C2: whenever a page named by a token of a well-formed selector (a single
\* page, or the start or the end of a hyphen range) lies outside
\* [1, total_pages], the call raises the out-of-range error and returns no list.
C2_OutOfRangeRaises ==
    ( /\ parse_result # PENDING
      /\ total_pages # NONE
      /\ WellFormed(pages_str)
      /\ \E k \in 1..Len(Tokens(pages_str)) :
             ~(Endpoints(Tokens(pages_str)[k], total_pages) \subseteq 1..total_pages) )
    => parse_result = Raise("ValueError: out of range")

\* C3: for an in-range selector the result is the sorted union of what its
\* tokens denote (N, A-B inclusive, A- up to total_pages); the same list is
\* returned for the tokens in reverse order and with a token repeated.
C3_SortedUnionOfTokens ==
    ( parse_result # PENDING /\ InRange(pages_str, total_pages) ) =>
        /\ parse_result = Ok(sorted(DenoteAll(pages_str, total_pages)))
        /\ parse_page_ranges(JoinComma(Reverse(Tokens(pages_str))), total_pages)
               = parse_result
        /\ parse_page_ranges(pages_str \o <<",">> \o Tokens(pages_str)[1], total_pages)
               = parse_result

\* an in-range selector: an open range listed before an earlier page
C3_Witness ==
    /\ parse_result.kind = "ok"
    /\ InRange(pages_str, total_pages)
    /\ pages_str = <<"2", "-", ",", "1">>
    /\ total_pages = 2
    /\ parse_result.value = <<1, 2>>

(***************************************************************************)
(* Document classifier (spec section 4.2).                                 *)
(***************************************************************************)

\* a page whose text holds a character that is not whitespace
HasVisibleChar(page) == \E i \in 1..Len(page.text) : page.text[i] \notin WhitespaceChars

\* the visiting orders of n pages
Orders(n) == { f \in [1..n -> 1..n] : \A i \in 1..n : \A j \in 1..n : i # j => f[i] # f[j] }

Permuted(pages, f) == [i \in 1..Len(pages) |-> pages[f[i]]]

\* C4: has_no_text reports scanned (True) exactly when no page holds a
\* non-whitespace character, and the answer is the same for every order in
\* which the pages are visited.
C4_ScannedIffEveryPageBlank ==
    no_text_result # PENDING =>
        /\ no_text_result.value = (\A i \in 1..Len(doc) : ~HasVisibleChar(doc[i]))
        /\ \A f \in Orders(Len(doc)) :
               has_no_text(Permuted(doc, f)) = no_text_result.value

\* a blank page followed by a page with text: classified digital-native
C4_Witness ==
    /\ no_text_result = Ok(FALSE)
    /\ Len(doc) = 2
    /\ ~HasVisibleChar(doc[1])
    /\ doc[1].text # <<>>
    /\ HasVisibleChar(doc[2])

(***************************************************************************)
(* Page extraction/skip stage (spec section 4.4).                          *)
(***************************************************************************)

\* C6: called with 1-based lists, extract_pages writes exactly the input
\* pages whose position is in a non-empty keep-list, in document order
\* (whatever the skip-list holds); with an empty keep-list and a non-empty
\* skip-list it writes exactly the pages whose position is not in the
\* skip-list, in document order.
C6_ExtractHonorsOneList ==
    ( ex_pc = "returned" /\ ~ex_zero_based /\ (ex_keep # <<>> \/ ex_skip # <<>>) ) =>
        LET out == ex_files[ex_output_pdf] IN
        /\ out.exists /\ out.complete
        /\ ex_keep # <<>> =>
             out.pages = SelectSeq(ex_original,
                                   LAMBDA p : \E k \in 1..Len(ex_keep) : ex_keep[k] = p)
        /\ (ex_keep = <<>> /\ ex_skip # <<>>) =>
             out.pages = SelectSeq(ex_original,
                                   LAMBDA p : \A k \in 1..Len(ex_skip) : ex_skip[k] # p)

\* both lists name page 2 of a two-page document: the keep-list is honored
C6_Witness ==
    /\ ex_pc = "returned"
    /\ ~ex_zero_based
    /\ ex_original = <<1, 2>>
    /\ ex_keep = <<2>>
    /\ ex_skip = <<2>>
    /\ ex_files[ex_output_pdf] = PdfFile(<<2>>)

StrictPrefix(m, other) ==
    Len(m) < Len(other) /\ \A i \in 1..Len(m) : m[i] = other[i]

\* C8: the list get_doi returns from a readable first page has no duplicates,
\* keeps the first-seen order of the detected matches (the raw matches,
\* punctuation-stripped and lowercased), holds no strict prefix of another
\* detected match, and holds every detected match that is not such a prefix.
C8_DedupPrefixLaw ==
    ( doi_result # PENDING /\ doi_dir = "readable" ) =>
        LET final == doi_result.value
            detected == Normalized(doi_matches)
            \* where each element of the result was first seen
            seen == [i \in 1..Len(final) |->
                        { k \in 1..Len(detected) :
                            detected[k] = final[i]
                            /\ \A j \in 1..(k - 1) : detected[j] # final[i] }]
        IN
        /\ \A i \in 1..Len(final) : seen[i] # {}
        /\ \A i \in 1..Len(final) : \A j \in 1..Len(final) :
               i < j => \A x \in seen[i] : \A y \in seen[j] : x < y
        /\ \A i \in 1..Len(final) : \A k \in 1..Len(detected) :
               ~StrictPrefix(final[i], detected[k])
        /\ \A k \in 1..Len(detected) :
               (\A l \in 1..Len(detected) : ~StrictPrefix(detected[k], detected[l]))
               => \E i \in 1..Len(final) : final[i] = detected[k]

\* the truncated form comes after its complete form with a trailing period
C8_Witness ==
    /\ doi_dir = "readable"
    /\ doi_matches = << <<DoiHead, "a", "b">>, <<DoiHead, "a", ".">> >>
    /\ doi_result = Ok(<< <<DoiHead, "a", "b">> >>)

(***************************************************************************)
(* Workspace relative output (spec section 4.3).                           *)
(***************************************************************************)

\* the marker as a path, and the input path, as characters
MarkerStr == PathStr(PathOf(od_input_path_prefix))
InputStr == PathStr(od_input_pdf)

\* the places where the marker occurs in the input path
MarkerAt == { i \in 1..Len(InputStr) :
                /\ i + Len(MarkerStr) - 1 <= Len(InputStr)
                /\ \A k \in 1..Len(MarkerStr) : InputStr[i + k - 1] = MarkerStr[k] }

\* the names between the slashes of a piece of a path
RECURSIVE NamesOf(_, _)
NamesOf(str, name) ==
    IF str = <<>> THEN (IF name = <<>> THEN <<>> ELSE <<name>>)
    ELSE IF Head(str) = "/"
         THEN (IF name = <<>> THEN <<>> ELSE <<name>>) \o NamesOf(Tail(str), <<>>)
         ELSE NamesOf(Tail(str), name \o <<Head(str)>>)

\* C9: with a prefix marker, get_output_dir_final raises the configuration
\* error exactly when the marker does not occur in the input path; whenever it
\* returns, the directory is base_output followed by the directories (all
\* names but the last) of the part of the input path after the first
\* occurrence of the marker, and that directory has been created.
C9_RelativeOutputDir ==
    ( od_result # PENDING /\ od_input_path_prefix # <<>> ) =>
        /\ (MarkerAt = {}) <=> (od_result = Raise("ValueError: prefix not found"))
        /\ od_result.kind = "ok" =>
             LET first == CHOOSE i \in MarkerAt : \A j \in MarkerAt : i <= j
                 rest == NamesOf(SubSeq(InputStr, first + Len(MarkerStr), Len(InputStr)), <<>>)
                 dirs == SubSeq(rest, 1, Len(rest) - 1)
             IN /\ od_result.value.root = od_output_dir.root
                /\ od_result.value.parts = od_output_dir.parts \o dirs
                /\ od_result.value \in od_created
        /\ od_result.kind = "error" => od_created = {}

\* input /a/b/a/b (data/in/2024/doc.pdf), marker /a/b, base /o: the result is /o/a
C9_Witness ==
    /\ od_input_pdf = AbsPath(<< <<"a">>, <<"b">>, <<"a">> >>)
    /\ od_input_path_prefix = <<"/", "a">>
    /\ od_output_dir = AbsPath(<< <<"o">> >>)
    /\ od_result = Ok(AbsPath(<< <<"o">>, <<"b">> >>))

\* the marker does not occur: the configuration error, and no directory
C9_WitnessRaises ==
    /\ od_input_pdf = AbsPath(<< <<"a">>, <<"b">> >>)
    /\ od_input_path_prefix = <<"b", "/", "a">>
    /\ od_result = Raise("ValueError: prefix not found")

(***************************************************************************)
(* Classification of a zero-page document (spec section 4.2) and           *)
(* degraded-mode propagation (spec section 4.6), on process_pdf.           *)
(***************************************************************************)

\* process_pdf has classified its input: it is past line 271
Classified ==
    /\ pp_pc # "start"
    /\ ~(pp_pc = "raised" /\ pp_error = "ValueError: prefix not found")

\* the positions after the unpaper loop was entered, and after Step 3
PastStep2 == pp_pc \in {"unpaper", "step3", "step4", "step5", "step6", "write", "returned"}
PastStep3 == pp_pc \in {"step4", "step5", "step6", "write", "returned"}

\* C5 as stated: on a zero-page document both classifiers answer
\* digital-native, and the run enters neither scan cleanup nor OCR.
C5_ZeroPagesDigitalNative ==
    ( pp_input = <<>> /\ Classified ) =>
        /\ ~has_no_text(pp_input)
        /\ ~is_scanned_or_hybrid(pp_input)
        /\ ~pp_is_scan
        /\ ~pp_temp_subdir
        /\ pp_ocr = NoCall

\* C5: on a zero-page document both classifiers answer scanned, process_pdf
\* sets is_scan, every run that gets past Step 2 has gone through scan
\* cleanup (the scratch directory and the raster directory were made), and
\* every run that gets past Step 3 has called the selected OCR backend.
C5_ZeroPagesScanned ==
    ( pp_input = <<>> /\ Classified ) =>
        /\ has_no_text(pp_input)
        /\ is_scanned_or_hybrid(pp_input)
        /\ pp_is_scan
        /\ PastStep2 => ( pp_temp_subdir /\ pp_dirs.scans_dir.exists /\ pp_files.scan_pdf.exists )
        /\ PastStep3 => pp_ocr = OcrCall

\* a zero-page run that went through scan cleanup and the ocrmypdf call
C5_Witness ==
    /\ pp_input = <<>>
    /\ pp_pc = "returned"
    /\ pp_is_scan
    /\ pp_temp_subdir
    /\ pp_ocr # NoCall
    /\ pp_ocr.backend = "ocrmypdf"

\* C10: when unpaper was tried and cleaned no image, the ocrmypdf call has
\* clean and clean_final off.
C10_DegradedOcrNoCleanup ==
    ( /\ pp_ocr.backend = "ocrmypdf"
      /\ \E k \in 1..Len(pp_tools) : pp_tools[k] = "unpaper"
      /\ pp_dirs.pnm_subdir.files = {} ) =>
        ( pp_ocr.clean = FALSE /\ pp_ocr.clean_final = FALSE )

(***************************************************************************)
(* Failures and the end of a run (spec sections 4.7, 6 and 7), on          *)
(* process_pdf.                                                            *)
(***************************************************************************)

Finished == pp_pc \in {"returned", "raised"}

\* C11: once the OCR backend has failed, process_pdf has raised: it is at no
\* later step, it has not returned, and nothing of the skip, thumbnail, text
\* or metadata stages has been written.
C11_BackendFailurePropagates ==
    pp_error = "OCR backend error" =>
        /\ pp_pc = "raised"
        /\ pp_files.output_pdf = NoFile
        /\ pp_files.input_pdf = PdfFile(pp_input)
        /\ ~pp_dirs.thumbs_dir.exists
        /\ ~pp_dirs.texts_dir.exists
        /\ ~pp_files.summary_txt.exists
        /\ ~pp_files.meta_json.exists

\* the pymupdf backend failed in a run that asked for every export
C11_Witness ==
    /\ pp_error = "OCR backend error"
    /\ pp_pc = "raised"
    /\ pp_ocr.backend = "pymupdf"
    /\ pp_args.skip_pages_str # <<>>
    /\ pp_args.export_thumbs_flag /\ pp_args.export_texts_flag /\ pp_args.get_doi_flag

\* C12: a run that raised has written the metadata sidecar.
C12_MetadataWrittenOnError ==
    pp_pc = "raised" => pp_files.meta_json.exists

\* the keys of the metadata in the sidecar
SidecarKeys == { pp_files.meta_json.pages[k][1] : k \in 1..Len(pp_files.meta_json.pages) }

\* C13: a run that returned has written the sidecar, and the sidecar holds
\* the doi key.
C13_SidecarHoldsDoi ==
    pp_pc = "returned" => ( pp_files.meta_json.exists /\ "doi" \in SidecarKeys )

\* C14: when process_pdf has returned or raised, the mkdtemp directory is
\* gone.
C14_ScratchRemoved ==
    Finished => ~pp_temp_subdir

\* the external programs started so far
ToolsStarted == { pp_tools[k] : k \in 1..Len(pp_tools) }
ConfigurationErrors == { "ValueError: out of range", "ValueError: prefix not found" }

\* C15: when a configuration error is raised, no rasterizer, cleanup filter
\* or OCR backend has been started.
C15_ConfigErrorBeforeTools ==
    ( pp_pc = "raised" /\ pp_error \in ConfigurationErrors ) =>
        ToolsStarted \cap {"rasterizer", "unpaper", "unpaper --version", "ocr"} = {}

\* C16: debug_flag changes no outcome: no run raises from a statement that
\* only a run with debug_flag executes (run_unpaper_version, the command line
\* printed by the except handler), where the same run without the flag goes on.
C16_DebugChangesNoOutcome ==
    pp_pc = "raised" =>
        pp_error \notin {"FileNotFoundError: unpaper", "FileNotFoundError: temp_outfile"}

\* the output document has a page
HasOutputPages == Len(pp_files[OutputPdf].pages) > 0

\* C17 as stated: in a run that returned, each artifact is there if and only
\* if its own flag is set.
C17_ArtifactIffOwnFlag ==
    pp_pc = "returned" =>
        /\ pp_dirs.images_dir.exists <=> pp_args.export_images_flag
        /\ pp_dirs.thumbs_dir.exists <=> pp_args.export_thumbs_flag
        /\ pp_dirs.texts_dir.exists <=> pp_args.export_texts_flag
        /\ pp_files.summary_txt.exists <=> pp_args.export_texts_flag
        /\ "doi" \in SidecarKeys <=> pp_args.get_doi_flag

\* C17: in a run that returned, the thumbnails are there iff their flag is
\* set; the images iff the image flag or the thumbnail flag is set or the
\* document was scanned; the page texts and the summary iff the text flag or
\* the identifier flag is set and the output has a page; the identifier list
\* iff the identifier flag is set and the output has a page.
C17_ArtifactIffStageRan ==
    pp_pc = "returned" =>
        /\ pp_dirs.thumbs_dir.exists <=> pp_args.export_thumbs_flag
        /\ pp_dirs.images_dir.exists <=>
               ( pp_args.export_images_flag \/ pp_args.export_thumbs_flag \/ pp_is_scan )
        /\ pp_dirs.texts_dir.exists <=>
               ( (pp_args.export_texts_flag \/ pp_args.get_doi_flag) /\ HasOutputPages )
        /\ pp_files.summary_txt.exists <=>
               ( (pp_args.export_texts_flag \/ pp_args.get_doi_flag) /\ HasOutputPages )
        /\ "doi" \in SidecarKeys <=> ( pp_args.get_doi_flag /\ HasOutputPages )

\* a document with text, thumbnails only: the images are exported as well
C17_Witness ==
    /\ pp_pc = "returned"
    /\ ~pp_is_scan
    /\ pp_args.export_thumbs_flag
    /\ ~pp_args.export_images_flag /\ ~pp_args.export_texts_flag /\ ~pp_args.get_doi_flag
    /\ pp_dirs.thumbs_dir.exists
    /\ pp_dirs.images_dir.exists
    /\ ~pp_dirs.texts_dir.exists

\* C18: the file at the input path keeps its content in every state of
\* every run.
C18_InputNeverWritten ==
    pp_files.input_pdf = PdfFile(pp_input)

\* the number of times unpaper was started
UnpaperCalls == Cardinality({ k \in 1..Len(pp_tools) : pp_tools[k] = "unpaper" })

\* C19: once a run is out of the unpaper loop, unpaper was started on every
\* raster and the result images were assembled, whether or not unpaper
\* failed (a run that stopped before the loop aside).
C19_FilterFailureNeverAborts ==
    ( /\ pp_dirs.scans_dir.exists
      /\ pp_pc # "unpaper"
      /\ pp_error # "FileNotFoundError: unpaper" ) =>
        ( UnpaperCalls = Len(FilesToProcess) /\ pp_dirs.images_dir.exists )

\* C20: with a pre-rotate angle and the rasters of the pages made, no orientation
\* detection was run and the document counts as rotated.
C20_PreRotateTrusted ==
    ( pp_args.pre_rotate # NONE /\ pp_dirs.scans_dir.files # {} ) =>
        ( "orientation" \notin ToolsStarted /\ pp_rotated # 0 )

\* C21: a call of export_images whose source PDF does not exist leaves the
\* entry at out_dir, and every file in it, as it was.
C21_ExportNoOpWhenSourceMissing ==
    [][ (CallExportImages /\ ~ei_pdf_path.exists) => ei_out_dir' = ei_out_dir ]_vars

\* the option names and values an unpaper argument list is made of
ArgTokens ==
    { DEFAULT_ARGS[k] : k \in 1..Len(DEFAULT_ARGS) }
        \cup { "--layout", "single", "double", "--pre-rotate", "--output-pages", "1", "2" }
        \cup { ToString(r) : r \in PreRotates \ {NONE} }

\* the argument strings of at most n tokens that use none of the options
ArgStringsWithout(options, n) == { JoinArgs(l) : l \in SeqsUpTo(ArgTokens \ options, n) }

HasArg(list, option) == \E k \in 1..Len(list) : list[k] = option

\* C22: with output_pages set, the argument list of every unpaper call and
\* the argument string of the ocrmypdf call hold no --layout; the argument
\* string of the ocrmypdf call never holds --pre-rotate or --output-pages.
C22_LayoutIgnoredWhenSplit ==
    /\ ( pp_args.output_pages # PyNone /\ "unpaper" \in ToolsStarted ) =>
           ~HasArg(UnpaperArgs, "--layout")
    /\ ( pp_args.output_pages # PyNone /\ pp_ocr.backend = "ocrmypdf" ) =>
           pp_ocr.unpaper_args \in ArgStringsWithout({"--layout"}, 2)
    /\ pp_ocr.backend = "ocrmypdf" =>
           pp_ocr.unpaper_args \in ArgStringsWithout({"--pre-rotate", "--output-pages"}, 2)

\* the stages of process_pdf in the order of the specification
StageOrder ==
    << "classify", "extract", "scan-cleanup", "reassemble", "ocr", "skip", "export",
       "text", "doi", "metadata" >>
StageRank(stage) == CHOOSE k \in 1..Len(StageOrder) : StageOrder[k] = stage
ScanOnlyStages == { "scan-cleanup", "reassemble", "ocr" }

\* C23: in every state of every run the stages that ran so far ran in the
\* fixed order classify, extract, scan-cleanup, reassemble, OCR, skip,
\* export, text, identifier, metadata, none of them twice, and scan-cleanup,
\* reassembly and the OCR backend ran only for a document classified as
\* scanned.
C23_StagesInFixedOrder ==
    /\ \A i, j \in 1..Len(pp_stages) :
           i < j => StageRank(pp_stages[i]) < StageRank(pp_stages[j])
    /\ \A k \in 1..Len(pp_stages) : pp_stages[k] \in ScanOnlyStages => pp_is_scan

\* a scanned document went through all ten stages and the run returned
C23_Witness ==
    /\ pp_pc = "returned"
    /\ pp_is_scan
    /\ pp_stages = StageOrder

\* the stems the browser gives a download of the expected name: the name
\* itself, or the name, white space and a number in parentheses
IsDuplicateOf(file_stem, expected_stem) ==
    \/ /\ file_stem = expected_stem
       /\ ~\E n \in 1..Len(file_stem) :
              /\ n + 2 <= Len(file_stem)
              /\ file_stem[Len(file_stem)] = ")"
              /\ file_stem[Len(file_stem) - n - 1] = "("
              /\ \A k \in (Len(file_stem) - n)..(Len(file_stem) - 1) : file_stem[k] \in DigitChars
    \/ /\ expected_stem = <<>> \/ expected_stem[Len(expected_stem)] \notin WhitespaceChars
       /\ \E ws \in 0..Len(file_stem), n \in 1..Len(file_stem) :
              /\ Len(file_stem) = Len(expected_stem) + ws + n + 2
              /\ SubSeq(file_stem, 1, Len(expected_stem)) = expected_stem
              /\ \A k \in (Len(expected_stem) + 1)..(Len(expected_stem) + ws) :
                     file_stem[k] \in WhitespaceChars
              /\ file_stem[Len(expected_stem) + ws + 1] = "("
              /\ \A k \in (Len(expected_stem) + ws + 2)..(Len(file_stem) - 1) :
                     file_stem[k] \in DigitChars
              /\ file_stem[Len(file_stem)] = ")"

PdfSuffix == << ".", "p", "d", "f" >>
SentinelSuffix == << ".", "c", "r", "d", "o", "w", "n", "l", "o", "a", "d" >>

\* the name without its suffix
NameWithoutSuffix(name, suffix) == SubSeq(name, 1, Len(name) - Len(suffix))

\* the poll of this step returns a file
ReturnsFile == wd_pc = "loop" /\ wd_pc' = "returned"

\* C24: wait_for_download returns only at a poll before end_time where the
\* folder holds no *.crdownload, and what it returns is a PDF of the folder
\* whose stem without the duplicate suffix is the expected stem; it raises
\* only the timeout error and only when the time is up; and every call
\* ends.
C24_BoundedPoll ==
    /\ [][ ReturnsFile =>
             /\ wd_now < wd_end_time
             /\ \A f \in wd_folder : ~endswith(f, SentinelSuffix)
             /\ \E f \in wd_folder :
                    /\ endswith(f, PdfSuffix)
                    /\ IsDuplicateOf(NameWithoutSuffix(f, PdfSuffix),
                                     stem(wd_pdf_name))
                    /\ wd_result' = Ok(f) ]_vars
    /\ [][ wd_pc' = "raised" =>
             /\ wd_now >= wd_end_time
             /\ wd_result' = Raise("RuntimeError: Download timed out") ]_vars
    /\ <>(wd_pc \in {"returned", "raised"})

\* the call returned the duplicate "a (1).pdf" for the expected name "a"
C24_Witness ==
    /\ wd_pc = "returned"
    /\ wd_pdf_name = << "a" >>
    /\ wd_result = Ok(<< "a", " ", "(", "1", ")", ".", "p", "d", "f" >>)
    /\ wd_now > 0

\* the temp files a run has written and will still read
InUse(run) ==
    IF tr_pc[run] \in {"copy", "raster", "reassemble", "step3"}
    THEN {tmp_pdf(run)} \cap tr_temp ELSE {}

\* C25: no step of one run removes a temp file the other run has written
\* and will still read.
C25_RunsDoNotInterfere ==
    [][ \A run \in Runs : tr_pc'[run] = tr_pc[run] => InUse(run) \subseteq tr_temp' ]_vars

\* the images the current run made: the cleaned images, or the rasters
CurrentRunImages ==
    IF pp_dirs.pnm_subdir.files # {} THEN pp_dirs.pnm_subdir.files ELSE pp_dirs.scans_dir.files

\* C26: right after the reassembly of a scanned document the images
\* directory holds exactly the images of the current run, and the per-image
\* backend then writes one page for each of them.
C26_ResultImagesOfCurrentRun ==
    /\ ( pp_is_scan /\ pp_pc = "step3" ) =>
           pp_dirs.images_dir.files = CurrentRunImages
    /\ ( pp_is_scan /\ pp_pc = "step4" /\ pp_ocr.backend = "pymupdf" ) =>
           Len(pp_files[OutputPdf].pages) = Cardinality(CurrentRunImages)

\* C27: when a call of save_page_as_pdf has ended, by return or by
\* exception, the shared driver handle is none; and while a call fetches,
\* the driver it uses was started with the download directory and the
\* user agent of that call.
C27_NoDriverLeftOpen ==
    /\ sc_pc = "ended" => sc_driver = NoDriver
    /\ sc_pc = "fetching" =>
           sc_driver = Driver(DownloadDirOf(sc_args.temp_dir), sc_args.ua)

\* C28: when process_pdf is about to write its first file below the output
\* directory, the output directory exists, however the root was resolved
\* and with or without a marker.
C28_OutputDirExistsAtFirstWrite ==
    or_pc = "write" => or_output_dir \in or_dirs

====
